---------------------------- MODULE Spec2Model ----------------------------
(***************************************************************************)
(* Model of the signal filter chain, the position / cooldown state machine *)
(* of SharpeOptimizedStrategy (strategy.py) and the Backtester loop        *)
(* (backtester.py).                                                        *)
(*                                                                         *)
(* Numbers are fixed point:                                                *)
(*   - prices are integers (price units);                                  *)
(*   - ratios configured as fractions (0.15, 0.8, 0.9, 0.001) are kept in  *)
(*     per-mille or per-cent as stated at each constant, and every         *)
(*     comparison of a ratio is done by cross-multiplication, so it is the *)
(*     exact comparison of the real numbers;                               *)
(*   - money is in cents.                                                  *)
(* A value that may be missing / None / NaN is a sequence of length <= 1:  *)
(* <<>> is "no value", <<v>> is the value v.                               *)
(* Reason strings, which the code formats with numbers, are modelled by a  *)
(* tag naming the branch that produced them.                               *)
(***************************************************************************)
EXTENDS Integers, Sequences, FiniteSets, TLC

VARIABLES
    signal_filter,   \* SignalFilter instance: the five enable_* switches
    strategy,        \* SharpeOptimizedStrategy instance state
    bt,              \* Backtester instance state
    pc,              \* position of run_backtest: "idle", "loop", "done"
    now,             \* wall clock (datetime.now()), in hours
    last,            \* the last operation applied: its name, inputs, result
    ghost            \* history: counts of calls, used to state properties

vars == <<signal_filter, strategy, bt, pc, now, last, ghost>>

Has(x) == x # <<>>
Val(x) == x[1]
Some(v) == <<v>>
None == <<>>
\* A cell of a row that is present and holds Python's None instead of a number.
NoneCell == <<"None", "None">>
HoldsNone(x) == Len(x) = 2

Max(a, b) == IF a >= b THEN a ELSE b
Min(a, b) == IF a <= b THEN a ELSE b
Abs(a) == IF a >= 0 THEN a ELSE -a

(***************************************************************************)
(* SignalFilter (strategy.py, class SignalFilter)                          *)
(***************************************************************************)

\* Filter parameters, as OPTIMIZED_STRATEGY_CONFIG['signal_filters'] sets them.
\* price_deviation_threshold 3.0 %, in tenths of a per cent
price_deviation_threshold == 30
rsi_overbought_threshold == 85
rsi_oversold_threshold == 25
\* min_volatility 0.003 and max_volatility 0.60, in 1/1000
min_volatility == 3
max_volatility == 600
volatility_period == 50
\* entanglement_distance_threshold 0.03 %, in hundredths of a per cent
entanglement_distance_threshold == 3
\* score thresholds, in hundredths
filter_long_base_score == 30
filter_long_trend_score == 20
filter_short_base_score == -30
filter_short_trend_score == -10

FilterNames ==
    {"price_deviation", "rsi", "volatility", "signal_filter", "price_ma_entanglement"}

FilterResult(signal, reason) == [signal |-> signal, reason |-> reason]

\* _get_market_state_adjustment, in tenths of a per cent
get_market_state_adjustment(row) ==
    IF row.market_regime = 2 THEN -5
    ELSE IF row.market_regime = 1 THEN 50
    ELSE 0

\* _get_volatility_adjustment, in tenths of a per cent;
\* atr_ratio = atr / close * 100
get_volatility_adjustment(row) ==
    IF row.atr > 0 /\ row.close > 0
    THEN IF row.atr * 100 > 5 * row.close THEN 15
         ELSE IF row.atr * 100 > 3 * row.close THEN 5
         ELSE IF row.atr * 100 < row.close THEN -5
         ELSE 0
    ELSE 0

\* _get_dynamic_price_deviation_threshold, in tenths of a per cent
get_dynamic_price_deviation_threshold(row) ==
    LET dynamic_threshold == price_deviation_threshold
                             + get_market_state_adjustment(row)
                             + get_volatility_adjustment(row)
    IN Max(10, Min(80, dynamic_threshold))

\* _check_price_deviation; price_deviation = (price - lineWMA) / lineWMA * 100
\* is compared with the threshold by cross-multiplication (lineWMA > 0 here:
\* the lineWMA = 0 branch is taken before the division).
check_price_deviation(row, signal) ==
    IF Has(row.lineWMA)
    THEN LET dynamic_threshold == get_dynamic_price_deviation_threshold(row)
             line_wma == Val(row.lineWMA)
         IN IF signal = 1 /\ line_wma # 0
               /\ (row.low - line_wma) * 1000 >= dynamic_threshold * line_wma
            THEN FilterResult(0, "price_deviation_long")
            ELSE IF signal = -1 /\ line_wma # 0
                    /\ (row.high - line_wma) * 1000 <= -dynamic_threshold * line_wma
            THEN FilterResult(0, "price_deviation_short")
            ELSE FilterResult(signal, "ok")
    ELSE FilterResult(signal, "ok")

\* _check_rsi_conditions
check_rsi_conditions(row, signal) ==
    IF ~Has(row.rsi) THEN FilterResult(signal, "ok")
    ELSE IF signal = 1 /\ Val(row.rsi) >= rsi_overbought_threshold
    THEN FilterResult(0, "rsi_overbought_long")
    ELSE IF signal = -1 /\ Val(row.rsi) <= rsi_oversold_threshold
    THEN FilterResult(0, "rsi_oversold_short")
    ELSE FilterResult(signal, "ok")

\* _check_price_ma_entanglement: TRUE when the price and the averages are
\* entangled. price_wma_distance = |close - lineWMA| / lineWMA * 100.
check_price_ma_entanglement(row) ==
    IF ~Has(row.lineWMA) \/ Val(row.lineWMA) = 0
       \/ row.openEMA = 0 \/ row.closeEMA = 0
    THEN FALSE
    ELSE LET current_price == row.close
             line_wma == Val(row.lineWMA)
             ema_max == Max(row.openEMA, row.closeEMA)
             ema_min == Min(row.openEMA, row.closeEMA)
             perfect_bullish == current_price > ema_max /\ ema_max > line_wma
             perfect_bearish == current_price < ema_min /\ ema_min < line_wma
             too_close == Abs(current_price - line_wma) * 10000
                             < entanglement_distance_threshold * line_wma
         IN IF perfect_bullish \/ perfect_bearish THEN too_close ELSE TRUE

\* _check_signal_filter: the scores passed by the caller are preferred, the
\* row's own columns are the fallback.
check_signal_filter(row, signal, trend_score, base_score) ==
    LET ts == IF Has(trend_score) THEN trend_score ELSE row.trend_score
        bs == IF Has(base_score) THEN base_score ELSE row.base_score
    IN IF ~Has(ts) \/ ~Has(bs) THEN FilterResult(signal, "ok")
       ELSE IF signal = 1 /\ Val(ts) < filter_long_trend_score
       THEN FilterResult(0, "long_trend_score_low")
       ELSE IF signal = 1 /\ Val(bs) < filter_long_base_score
       THEN FilterResult(0, "long_base_score_low")
       ELSE IF signal = -1 /\ Val(ts) > filter_short_trend_score
       THEN FilterResult(0, "short_trend_score_high")
       ELSE IF signal = -1 /\ Val(bs) > filter_short_base_score
       THEN FilterResult(0, "short_base_score_high")
       ELSE FilterResult(signal, "ok")

\* _check_volatility_filter: row.n_bars is len(current_data) and
\* row.volatility is returns.std() of the trailing window, in 1/1000.
\* A pass is reported with signal 1 whatever the direction asked for.
check_volatility_filter(row) ==
    IF row.n_bars < volatility_period THEN FilterResult(1, "ok")
    ELSE IF row.volatility < min_volatility THEN FilterResult(0, "volatility_low")
    ELSE IF row.volatility > max_volatility THEN FilterResult(0, "volatility_high")
    ELSE FilterResult(1, "ok")

\* A changed chain: the entanglement check placed before the trend filter.
filter_steps_reordered(f, signal, row, trend_score, base_score) ==
    << [name |-> "price_deviation", enabled |-> f.enable_price_deviation_filter,
        result |-> check_price_deviation(row, signal)],
       [name |-> "rsi", enabled |-> f.enable_rsi_filter,
        result |-> check_rsi_conditions(row, signal)],
       [name |-> "volatility", enabled |-> f.enable_volatility_filter,
        result |-> check_volatility_filter(row)],
       [name |-> "price_ma_entanglement", enabled |-> f.enable_price_ma_entanglement,
        result |-> IF check_price_ma_entanglement(row)
                   THEN FilterResult(0, "price_ma_entangled")
                   ELSE FilterResult(signal, "ok")],
       [name |-> "signal_filter", enabled |-> f.enable_signal_filter,
        result |-> check_signal_filter(row, signal, trend_score, base_score)] >>

\* The checks of filter_signal in the order the code runs them, each with
\* its switch and with what its check returns.
filter_steps(f, signal, row, trend_score, base_score) ==
    << [name |-> "price_deviation", enabled |-> f.enable_price_deviation_filter,
        result |-> check_price_deviation(row, signal)],
       [name |-> "rsi", enabled |-> f.enable_rsi_filter,
        result |-> check_rsi_conditions(row, signal)],
       [name |-> "volatility", enabled |-> f.enable_volatility_filter,
        result |-> check_volatility_filter(row)],
       [name |-> "signal_filter", enabled |-> f.enable_signal_filter,
        result |-> check_signal_filter(row, signal, trend_score, base_score)],
       [name |-> "price_ma_entanglement", enabled |-> f.enable_price_ma_entanglement,
        result |-> IF check_price_ma_entanglement(row)
                   THEN FilterResult(0, "price_ma_entangled")
                   ELSE FilterResult(signal, "ok")] >>

\* A changed chain walk: a passing check's returned signal is carried on.
RECURSIVE run_filters_carry(_, _, _, _)
run_filters_carry(steps, i, signal, consulted) ==
    IF i > Len(steps)
    THEN [signal |-> signal, reason |-> "normal_signal", consulted |-> consulted]
    ELSE IF ~steps[i].enabled
    THEN run_filters_carry(steps, i + 1, signal, consulted)
    ELSE IF steps[i].result.signal = 0
    THEN [signal |-> 0, reason |-> steps[i].result.reason,
          consulted |-> Append(consulted, steps[i].name)]
    ELSE run_filters_carry(steps, i + 1, steps[i].result.signal,
                           Append(consulted, steps[i].name))

\* The body of filter_signal after the signal == 0 shortcut: a disabled check
\* is not called; an enabled one that returns 0 ends the chain with its
\* reason; after the last one the caller's signal is returned.
\* consulted lists the checks that were called.
RECURSIVE run_filters(_, _, _, _)
run_filters(steps, i, signal, consulted) ==
    IF i > Len(steps)
    THEN [signal |-> signal, reason |-> "normal_signal", consulted |-> consulted]
    ELSE IF ~steps[i].enabled
    THEN run_filters(steps, i + 1, signal, consulted)
    ELSE IF steps[i].result.signal = 0
    THEN [signal |-> 0, reason |-> steps[i].result.reason,
          consulted |-> Append(consulted, steps[i].name)]
    ELSE run_filters(steps, i + 1, signal, Append(consulted, steps[i].name))

\* SignalFilter.filter_signal
filter_signal(f, signal, row, trend_score, base_score) ==
    IF signal = 0
    THEN [signal |-> signal, reason |-> "normal_signal", consulted |-> <<>>]
    ELSE run_filters(filter_steps(f, signal, row, trend_score, base_score),
                     1, signal, <<>>)

(***************************************************************************)
(* SharpeOptimizedStrategy: cooldown treatment (strategy.py)               *)
(***************************************************************************)

\* cooldown_treatment.consecutive_loss_threshold values the model runs with
\* (OPTIMIZED_STRATEGY_CONFIG sets 2).
ThresholdChoices == {2, 5}
ModeChoices == {"backtest", "realtime"}

\* trade_history keeps the last 20 trades
trade_history_limit == 20
\* skip_trades_levels defaults: consecutive losses per level, trades to skip
level_3_consecutive_losses == 7
level_2_consecutive_losses == 5
level_3_skip_trades == 7
level_2_skip_trades == 5
level_1_skip_trades == 3
\* position_reduction_levels defaults 0.5 / 0.7 / 0.8, in per cent
level_3_position_reduction == 50
level_2_position_reduction == 70
level_1_position_reduction == 80
\* max_cooldown_treatment_duration, in timeframe periods; timeframe "1h"
max_cooldown_treatment_duration == 72
timeframe_hours == 1

\* SharpeOptimizedStrategy.__init__: the state after construction with
\* cooldown mode `mode` and consecutive_loss_threshold `threshold`.
\* high_point <<>> is -inf, low_point <<>> is +inf; position_size_reduction
\* and risk_multiplier are in per cent.
StrategyInit(mode, threshold) ==
    [ position |-> 0,
      entry_price |-> 0,
      high_point |-> Some(0),
      low_point |-> None,
      holding_periods |-> 0,
      risk_multiplier |-> 100,
      enable_cooldown_treatment |-> TRUE,
      cooldown_threshold |-> threshold,
      cooldown_treatment_active |-> FALSE,
      cooldown_treatment_level |-> 0,
      cooldown_treatment_start_time |-> None,
      position_size_reduction |-> 100,
      trade_history |-> <<>>,
      cooldown_treatment_mode |-> mode,
      skipped_trades_count |-> 0,
      max_skip_trades |-> 0,
      consecutive_losses |-> 0,
      consecutive_wins |-> 0 ]

\* The scan of _calculate_consecutive_results from trade i backwards.
RECURSIVE scan_consecutive(_, _, _, _)
scan_consecutive(history, i, losses, wins) ==
    IF i = 0 THEN [losses |-> losses, wins |-> wins]
    ELSE IF history[i] > 0
    THEN IF losses > 0 THEN [losses |-> losses, wins |-> wins]
         ELSE scan_consecutive(history, i - 1, losses, wins + 1)
    ELSE IF history[i] < 0
    THEN IF wins > 0 THEN [losses |-> losses, wins |-> wins]
         ELSE scan_consecutive(history, i - 1, losses + 1, wins)
    ELSE [losses |-> losses, wins |-> wins]

\* _calculate_consecutive_results
calculate_consecutive_results(s) ==
    LET r == scan_consecutive(s.trade_history, Len(s.trade_history), 0, 0)
    IN [s EXCEPT !.consecutive_losses = r.losses, !.consecutive_wins = r.wins]

\* _update_backtest_parameters / _update_realtime_parameters (same defaults)
level_position_reduction(level) ==
    IF level = 3 THEN level_3_position_reduction
    ELSE IF level = 2 THEN level_2_position_reduction
    ELSE level_1_position_reduction

\* _update_cooldown_treatment_parameters
update_cooldown_treatment_parameters(s) ==
    IF ~s.cooldown_treatment_active
    THEN [s EXCEPT !.position_size_reduction = 100]
    ELSE [s EXCEPT !.position_size_reduction =
                       level_position_reduction(s.cooldown_treatment_level)]

\* The level _activate_*_cooldown_treatment picks for a loss count.
activation_level(losses) ==
    IF losses >= level_3_consecutive_losses THEN 3
    ELSE IF losses >= level_2_consecutive_losses THEN 2
    ELSE 1

level_skip_trades(level) ==
    IF level = 3 THEN level_3_skip_trades
    ELSE IF level = 2 THEN level_2_skip_trades
    ELSE level_1_skip_trades

\* _activate_backtest_cooldown_treatment
activate_backtest_cooldown_treatment(s, t) ==
    LET level == activation_level(s.consecutive_losses)
    IN update_cooldown_treatment_parameters(
         [s EXCEPT !.cooldown_treatment_level = level,
                   !.max_skip_trades = level_skip_trades(level),
                   !.skipped_trades_count = 0,
                   !.cooldown_treatment_active = TRUE,
                   !.cooldown_treatment_start_time = Some(t)])

\* _activate_realtime_cooldown_treatment
activate_realtime_cooldown_treatment(s, t) ==
    update_cooldown_treatment_parameters(
      [s EXCEPT !.cooldown_treatment_level = activation_level(s.consecutive_losses),
                !.cooldown_treatment_active = TRUE,
                !.cooldown_treatment_start_time = Some(t)])

\* A changed activation check: the level is chosen again on every loss.
check_cooldown_treatment_activation_relevel(s, t) ==
    IF s.consecutive_losses >= s.cooldown_threshold
    THEN IF s.cooldown_treatment_mode = "backtest"
         THEN activate_backtest_cooldown_treatment(s, t)
         ELSE activate_realtime_cooldown_treatment(s, t)
    ELSE s

\* _check_cooldown_treatment_activation
check_cooldown_treatment_activation(s, t) ==
    IF s.cooldown_treatment_active THEN s
    ELSE IF s.consecutive_losses >= s.cooldown_threshold
    THEN IF s.cooldown_treatment_mode = "backtest"
         THEN activate_backtest_cooldown_treatment(s, t)
         ELSE activate_realtime_cooldown_treatment(s, t)
    ELSE s

\* A changed _reset_cooldown_treatment: the level is left as it was.
reset_cooldown_treatment_keep_level(s) ==
    [s EXCEPT !.cooldown_treatment_active = FALSE,
              !.cooldown_treatment_start_time = None,
              !.position_size_reduction = 100,
              !.skipped_trades_count = 0,
              !.max_skip_trades = 0]

\* _reset_cooldown_treatment
reset_cooldown_treatment(s) ==
    [s EXCEPT !.cooldown_treatment_active = FALSE,
              !.cooldown_treatment_level = 0,
              !.cooldown_treatment_start_time = None,
              !.position_size_reduction = 100,
              !.skipped_trades_count = 0,
              !.max_skip_trades = 0]

\* _check_backtest_recovery
check_backtest_recovery(s) == s.skipped_trades_count >= s.max_skip_trades

\* _check_realtime_recovery
check_realtime_recovery(s, t) ==
    IF Has(s.cooldown_treatment_start_time)
    THEN t - Val(s.cooldown_treatment_start_time)
            >= max_cooldown_treatment_duration * timeframe_hours
    ELSE FALSE

\* _check_cooldown_treatment_recovery
check_cooldown_treatment_recovery(s, t) ==
    IF ~s.cooldown_treatment_active THEN s
    ELSE IF (IF s.cooldown_treatment_mode = "backtest"
             THEN check_backtest_recovery(s)
             ELSE check_realtime_recovery(s, t))
    THEN reset_cooldown_treatment(s)
    ELSE s

\* A changed update_cooldown_treatment_status: the history is never cut.
update_cooldown_treatment_status_uncut(s, pnl, t) ==
    IF ~s.enable_cooldown_treatment THEN s
    ELSE update_cooldown_treatment_parameters(
             check_cooldown_treatment_recovery(
                 check_cooldown_treatment_activation(
                     calculate_consecutive_results(
                         [s EXCEPT !.trade_history = Append(s.trade_history, pnl)]),
                     t),
                 t))

\* update_cooldown_treatment_status with a trade result of profit pnl,
\* called at time t
update_cooldown_treatment_status(s, pnl, t) ==
    IF ~s.enable_cooldown_treatment THEN s
    ELSE LET appended == Append(s.trade_history, pnl)
             kept == IF Len(appended) > trade_history_limit
                     THEN SubSeq(appended, Len(appended) - trade_history_limit + 1,
                                 Len(appended))
                     ELSE appended
             s1 == calculate_consecutive_results([s EXCEPT !.trade_history = kept])
             s2 == check_cooldown_treatment_activation(s1, t)
             s3 == check_cooldown_treatment_recovery(s2, t)
         IN update_cooldown_treatment_parameters(s3)

\* A changed should_skip_trade: recovery only after the call that follows
\* the last skipped one.
should_skip_trade_late(s) ==
    IF ~s.cooldown_treatment_active \/ s.cooldown_treatment_mode # "backtest"
    THEN [ret |-> FALSE, s |-> s]
    ELSE IF s.skipped_trades_count < s.max_skip_trades
    THEN [ret |-> TRUE,
          s |-> [s EXCEPT !.skipped_trades_count = s.skipped_trades_count + 1]]
    ELSE [ret |-> FALSE, s |-> reset_cooldown_treatment(s)]

\* A changed should_skip_trade: the last skip lets the trade through without
\* ending the cooldown.
should_skip_trade_no_reset(s) ==
    IF ~s.cooldown_treatment_active \/ s.cooldown_treatment_mode # "backtest"
    THEN [ret |-> FALSE, s |-> s]
    ELSE IF s.skipped_trades_count + 1 < s.max_skip_trades
    THEN [ret |-> TRUE,
          s |-> [s EXCEPT !.skipped_trades_count = s.skipped_trades_count + 1]]
    ELSE [ret |-> FALSE, s |-> s]

\* should_skip_trade: the value returned and the strategy afterwards
should_skip_trade(s) ==
    IF ~s.cooldown_treatment_active \/ s.cooldown_treatment_mode # "backtest"
    THEN [ret |-> FALSE, s |-> s]
    ELSE IF s.skipped_trades_count < s.max_skip_trades
    THEN LET s1 == [s EXCEPT !.skipped_trades_count = s.skipped_trades_count + 1]
         IN IF s1.skipped_trades_count >= s1.max_skip_trades
            THEN [ret |-> FALSE, s |-> reset_cooldown_treatment(s1)]
            ELSE [ret |-> TRUE, s |-> s1]
    ELSE [ret |-> FALSE, s |-> s]

\* A changed reset_risk_management: the cooldown state is left as it is.
reset_risk_management_keep_cooldown(s) ==
    [s EXCEPT !.position = 0,
              !.entry_price = 0,
              !.high_point = Some(0),
              !.low_point = None]

\* reset_risk_management (holding_periods and risk_multiplier are not reset)
reset_risk_management(s) ==
    [s EXCEPT !.cooldown_treatment_active = FALSE,
              !.cooldown_treatment_level = 0,
              !.cooldown_treatment_start_time = None,
              !.position_size_reduction = 100,
              !.consecutive_losses = 0,
              !.consecutive_wins = 0,
              !.trade_history = <<>>,
              !.skipped_trades_count = 0,
              !.max_skip_trades = 0,
              !.position = 0,
              !.entry_price = 0,
              !.high_point = Some(0),
              !.low_point = None]

(***************************************************************************)
(* SharpeOptimizedStrategy: position (strategy.py)                         *)
(***************************************************************************)

\* A changed should_open_position: the same-direction check is missing.
should_open_position_pyramiding(s, signal) ==
    IF signal = 0 THEN [ret |-> FALSE, s |-> s]
    ELSE LET skip == should_skip_trade(s)
         IN [ret |-> ~skip.ret, s |-> skip.s]

\* should_open_position: the value returned and the strategy afterwards
\* (the cooldown check may count a skipped trade)
should_open_position(s, signal) ==
    IF signal = 0 THEN [ret |-> FALSE, s |-> s]
    ELSE IF s.position = signal THEN [ret |-> FALSE, s |-> s]
    ELSE LET skip == should_skip_trade(s)
         IN [ret |-> ~skip.ret, s |-> skip.s]

\* update_position_info(position, entry_price, current_price, current_time):
\* has_time tells whether a current_time was passed.
update_position_info(s, position, entry_price, current_price, has_time) ==
    LET s1 == [s EXCEPT !.position = position, !.entry_price = entry_price]
        s2 == IF (position # 0 /\ has_time) \/ position = 0
              THEN [s1 EXCEPT !.holding_periods = 0]
              ELSE s1
    IN IF position = 1
       THEN [s2 EXCEPT !.high_point = Some(current_price), !.low_point = None]
       ELSE IF position = -1
       THEN [s2 EXCEPT !.high_point = None, !.low_point = Some(current_price)]
       ELSE [s2 EXCEPT !.high_point = None, !.low_point = None]

\* update_holding_periods
update_holding_periods(s) ==
    IF s.position # 0 THEN [s EXCEPT !.holding_periods = s.holding_periods + 1]
    ELSE s

(***************************************************************************)
(* Backtester (backtester.py)                                              *)
(***************************************************************************)

\* initial_cash 1000.0, in cents; trading_fee 0.001, in per mille
initial_cash == 100000
trading_fee == 1

\* Backtester.__init__
BacktesterInit ==
    [ cash |-> initial_cash,
      position |-> 0,
      entry_price |-> 0,
      position_value |-> 0,
      total_trades |-> 0,
      profitable_trades |-> 0,
      loss_trades |-> 0,
      total_assets |-> <<>>,
      asset_timestamps |-> <<>>,
      trade_log |-> <<>>,
      high_point |-> Some(0),
      low_point |-> None ]

(***************************************************************************)
(* State after construction, shared by the specifications                  *)
(***************************************************************************)

\* SignalFilter.__init__ under OPTIMIZED_STRATEGY_CONFIG: all five enabled
SignalFilterInit ==
    [ enable_price_deviation_filter |-> TRUE,
      enable_price_ma_entanglement |-> TRUE,
      enable_rsi_filter |-> TRUE,
      enable_volatility_filter |-> TRUE,
      enable_signal_filter |-> TRUE ]

\* History of the calls made on the strategy since construction or the last
\* reset_risk_management, kept for stating the properties:
\*   act_m        max_skip_trades set by the last cooldown activation (0: none)
\*   skip_calls   should_skip_trade calls since the last activation
\*   closed_since a trade result arrived after the last activation
\*   skip_called  should_skip_trade was called
\*   recovered    _reset_cooldown_treatment ended a cooldown
GhostInit ==
    [ act_m |-> 0, skip_calls |-> 0, closed_since |-> FALSE,
      skip_called |-> FALSE, recovered |-> FALSE ]

LastInit == [op |-> "init"]

(***************************************************************************)
(* Specification SpecFilter: filter_signal applied to bounded inputs, for  *)
(* every setting of the five switches.                                     *)
(***************************************************************************)

FilterRow(line_wma, close, emas, market, rsi, vol) ==
    [ lineWMA |-> line_wma, close |-> close, low |-> close - 20, high |-> close + 20,
      openEMA |-> emas[1], closeEMA |-> emas[2],
      market_regime |-> market[1], atr |-> market[2],
      rsi |-> rsi, n_bars |-> vol[1], volatility |-> vol[2],
      trend_score |-> None, base_score |-> None,
      signal_score |-> None, RSI |-> None ]

FilterRows ==
    { FilterRow(w, c, e, m, r, v) :
        w \in {None, Some(10000)},
        c \in {9600, 9998, 10002, 10400},
        e \in {<<10001, 10001>>, <<9999, 9999>>, <<10200, 10100>>, <<9800, 9900>>},
        m \in {<<0, 0>>, <<1, 0>>, <<2, 600>>},
        r \in {None, Some(25), Some(85)},
        v \in {<<10, 0>>, <<50, 2>>, <<50, 3>>} }
    \cup
    { FilterRow(Some(0), 10400, <<10200, 10100>>, <<0, 0>>, Some(50), <<50, 3>>),
      FilterRow(Some(10000), 10400, <<0, 10100>>, <<0, 0>>, Some(50), <<50, 3>>),
      FilterRow(Some(10000), 10400, <<10200, 10100>>, <<0, 50>>, Some(84), <<50, 600>>),
      FilterRow(Some(10000), 9600, <<9800, 9900>>, <<0, 350>>, Some(26), <<50, 601>>),
      FilterRow(Some(10000), 10400, <<10200, 10100>>, <<2, 0>>, Some(50), <<49, 601>>) }

\* (trend_score, base_score) passed by the caller, in hundredths
ScoreChoices ==
    { <<None, Some(50)>>, <<Some(50), Some(50)>>, <<Some(-50), Some(-50)>>,
      <<Some(20), Some(29)>>, <<Some(-10), Some(-29)>> }

SwitchSettings ==
    [ enable_price_deviation_filter : BOOLEAN,
      enable_price_ma_entanglement : BOOLEAN,
      enable_rsi_filter : BOOLEAN,
      enable_volatility_filter : BOOLEAN,
      enable_signal_filter : BOOLEAN ]

InitFilter ==
    /\ signal_filter \in SwitchSettings
    /\ strategy = StrategyInit("backtest", 2)
    /\ bt = BacktesterInit
    /\ pc = "idle"
    /\ now = 0
    /\ last = LastInit
    /\ ghost = GhostInit

\* One call of filter_signal on a constructed filter; the call changes no
\* state of the filter, so a second call adds nothing.
FilterSignal ==
    /\ last.op = "init"
    /\ \E signal \in {-1, 0, 1}, row \in FilterRows, sc \in ScoreChoices :
        /\ last' = [ op |-> "filter_signal", signal |-> signal, row |-> row,
                     trend_score |-> sc[1], base_score |-> sc[2],
                     ret |-> filter_signal(signal_filter, signal, row, sc[1], sc[2]) ]
        /\ UNCHANGED <<signal_filter, strategy, bt, pc, now, ghost>>

NextFilter == FilterSignal

SpecFilter == InitFilter /\ [][NextFilter]_vars

\* The order in which the chain is stated to run.
ChainOrder ==
    <<"price_deviation", "rsi", "volatility", "signal_filter", "price_ma_entanglement">>

SwitchOf(f, name) ==
    CASE name = "price_deviation" -> f.enable_price_deviation_filter
      [] name = "rsi" -> f.enable_rsi_filter
      [] name = "volatility" -> f.enable_volatility_filter
      [] name = "signal_filter" -> f.enable_signal_filter
      [] name = "price_ma_entanglement" -> f.enable_price_ma_entanglement

SetSwitch(f, name, b) ==
    CASE name = "price_deviation" -> [f EXCEPT !.enable_price_deviation_filter = b]
      [] name = "rsi" -> [f EXCEPT !.enable_rsi_filter = b]
      [] name = "volatility" -> [f EXCEPT !.enable_volatility_filter = b]
      [] name = "signal_filter" -> [f EXCEPT !.enable_signal_filter = b]
      [] name = "price_ma_entanglement" -> [f EXCEPT !.enable_price_ma_entanglement = b]

\* What the check of filter `name` answers on the inputs of call c.
CheckOf(name, c) ==
    CASE name = "price_deviation" -> check_price_deviation(c.row, c.signal)
      [] name = "rsi" -> check_rsi_conditions(c.row, c.signal)
      [] name = "volatility" -> check_volatility_filter(c.row)
      [] name = "signal_filter" ->
            check_signal_filter(c.row, c.signal, c.trend_score, c.base_score)
      [] name = "price_ma_entanglement" ->
            IF check_price_ma_entanglement(c.row)
            THEN FilterResult(0, "price_ma_entangled")
            ELSE FilterResult(c.signal, "ok")

\* The veto condition of filter `name` is satisfied on the inputs of call c.
VetoOf(name, c) == CheckOf(name, c).signal = 0

FilterCalled == last.op = "filter_signal"

\* The enabled filters among the first k of the chain, in chain order.
RECURSIVE EnabledPrefix(_, _)
EnabledPrefix(f, k) ==
    IF k = 0 THEN <<>>
    ELSE IF SwitchOf(f, ChainOrder[k])
         THEN Append(EnabledPrefix(f, k - 1), ChainOrder[k])
         ELSE EnabledPrefix(f, k - 1)

\* C9: for each of the five filters F whose veto condition does not hold on
\* the inputs, filter_signal answers the same (direction, reason) with F
\* enabled and with F disabled, the other switches being equal; with all five
\* disabled the input direction is returned unchanged.
C9_DisabledFilterIsAbsent ==
    FilterCalled =>
        /\ \A name \in FilterNames :
              ~VetoOf(name, last) =>
                 LET other == filter_signal(
                                 SetSwitch(signal_filter, name,
                                           ~SwitchOf(signal_filter, name)),
                                 last.signal, last.row, last.trend_score,
                                 last.base_score)
                 IN /\ other.signal = last.ret.signal
                    /\ other.reason = last.ret.reason
        /\ (\A name \in FilterNames : ~SwitchOf(signal_filter, name))
              => /\ last.ret.signal = last.signal
                 /\ last.ret.reason = "normal_signal"

\* C9 witness: an enabled filter that does not veto a non-zero signal which a
\* later enabled filter vetoes; and a call with all five disabled on inputs
\* that every filter would veto.
C9_Witness ==
    /\ FilterCalled
    /\ last.signal = -1
    /\ signal_filter.enable_volatility_filter
    /\ ~VetoOf("volatility", last)
    /\ last.row.n_bars >= volatility_period
    /\ signal_filter.enable_price_ma_entanglement
    /\ VetoOf("price_ma_entanglement", last)
    /\ last.ret.signal = 0

\* C10: filter_signal answers 0 with the reason of the first enabled filter,
\* in the order price-deviation, RSI, volatility, trend/base-score,
\* MA-entanglement, whose veto condition holds, and calls no later filter;
\* it answers the input direction when that is 0 or no enabled filter vetoes.
C10_FirstVetoWins ==
    FilterCalled =>
        LET vetoing == { i \in 1..Len(ChainOrder) :
                           /\ SwitchOf(signal_filter, ChainOrder[i])
                           /\ VetoOf(ChainOrder[i], last) }
        IN IF last.signal = 0
           THEN /\ last.ret.signal = 0
                /\ last.ret.consulted = <<>>
           ELSE IF vetoing = {}
           THEN /\ last.ret.signal = last.signal
                /\ last.ret.consulted = EnabledPrefix(signal_filter, Len(ChainOrder))
           ELSE LET k == CHOOSE i \in vetoing : \A j \in vetoing : i <= j
                IN /\ last.ret.signal = 0
                   /\ last.ret.reason = CheckOf(ChainOrder[k], last).reason
                   /\ last.ret.consulted = EnabledPrefix(signal_filter, k)

\* C10 witness: the trend filter and the entanglement filter both veto, an
\* earlier enabled filter passes, and the answer carries the trend reason.
C10_Witness ==
    /\ FilterCalled
    /\ last.signal = 1
    /\ signal_filter.enable_rsi_filter
    /\ ~VetoOf("rsi", last)
    /\ signal_filter.enable_signal_filter
    /\ VetoOf("signal_filter", last)
    /\ signal_filter.enable_price_ma_entanglement
    /\ VetoOf("price_ma_entanglement", last)
    /\ last.ret.signal = 0
    /\ last.ret.reason = "long_base_score_low"

(***************************************************************************)
(* SharpeOptimizedStrategy: stop loss (strategy.py)                        *)
(***************************************************************************)

\* risk_management.stop_loss.fixed_stop_loss 0.15, in per cent
fixed_stop_loss == 15
\* the factor 0.3 of the LineWMA stop, in tenths
linewma_stop_factor == 3

\* current_features is <<>> for None, else <<f>> where f.lineWMA is <<>> for
\* None/NaN and <<v>> for a number (a missing key reads as 0).
Features(line_wma) == <<[lineWMA |-> line_wma]>>

\* loss_ratio as the numerator over entry_price
loss_amount(s, current_price) ==
    IF s.position = 1 THEN s.entry_price - current_price
    ELSE current_price - s.entry_price

StopResult(ret, reason) == [ret |-> ret, reason |-> reason]

\* A changed should_stop_loss: the fixed stop compares with > .
should_stop_loss_strict(s, current_price, current_features) ==
    IF s.position = 0 THEN StopResult(FALSE, "none")
    ELSE LET loss == loss_amount(s, current_price)
         IN IF loss * 100 > fixed_stop_loss * s.entry_price
            THEN StopResult(TRUE, "fixed_stop")
            ELSE StopResult(FALSE, "none")

\* should_stop_loss(current_price, current_features)
should_stop_loss(s, current_price, current_features) ==
    IF s.position = 0 THEN StopResult(FALSE, "none")
    ELSE LET loss == loss_amount(s, current_price)
         IN IF loss * 100 >= fixed_stop_loss * s.entry_price
            THEN StopResult(TRUE, "fixed_stop")
            ELSE IF /\ Has(current_features)
                    /\ Has(Val(current_features).lineWMA)
                    /\ Val(Val(current_features).lineWMA) > 0
                    /\ loss * 1000 >= fixed_stop_loss * linewma_stop_factor * s.entry_price
            THEN IF s.position = 1
                    /\ current_price < Val(Val(current_features).lineWMA)
                 THEN StopResult(TRUE, "long_linewma_reversal")
                 ELSE IF s.position = -1
                         /\ current_price > Val(Val(current_features).lineWMA)
                 THEN StopResult(TRUE, "short_linewma_reversal")
                 ELSE StopResult(FALSE, "none")
            ELSE StopResult(FALSE, "none")

(***************************************************************************)
(* Specification SpecRisk: a strategy that is flat or has just opened a    *)
(* position is asked once for a stop-loss decision.                        *)
(***************************************************************************)

EntryPrices == {1000, 2000}

RiskPrices ==
    { 800, 849, 850, 851, 900, 954, 955, 956, 1000, 1044, 1045, 1046, 1100,
      1149, 1150, 1151, 1200, 1700, 1701, 1909, 1910, 1911, 2089, 2090, 2091,
      2299, 2300 }

RiskFeatures ==
    { None, Features(None) }
    \cup { Features(Some(w)) : w \in {0, 900, 955, 1000, 1045, 1100, 1910, 2090} }

InitRisk ==
    /\ signal_filter = SignalFilterInit
    /\ strategy = StrategyInit("backtest", 2)
    /\ bt = BacktesterInit
    /\ pc = "idle"
    /\ now = 0
    /\ last = LastInit
    /\ ghost = GhostInit

\* update_position_info(position, entry_price, entry_price, current_time),
\* as open_position calls it
RiskOpen ==
    /\ last.op = "init"
    /\ \E position \in {-1, 1}, entry_price \in EntryPrices :
        /\ strategy' = update_position_info(strategy, position, entry_price,
                                            entry_price, TRUE)
        /\ last' = [op |-> "update_position_info"]
    /\ UNCHANGED <<signal_filter, bt, pc, now, ghost>>

RiskStopLoss ==
    /\ last.op \in {"init", "update_position_info"}
    /\ \E current_price \in RiskPrices, current_features \in RiskFeatures :
        last' = [ op |-> "should_stop_loss", current_price |-> current_price,
                  current_features |-> current_features,
                  ret |-> should_stop_loss(strategy, current_price, current_features) ]
    /\ UNCHANGED <<signal_filter, strategy, bt, pc, now, ghost>>

NextRisk == RiskOpen \/ RiskStopLoss

SpecRisk == InitRisk /\ [][NextRisk]_vars

StopLossCalled == last.op = "should_stop_loss"

\* loss_ratio >= permille/1000 for the call recorded in `last`
LossAtLeast(permille) ==
    loss_amount(strategy, last.current_price) * 1000 >= permille * strategy.entry_price

\* the price is on the adverse side of a positive lineWMA
AdverseOfLineWMA ==
    /\ Has(last.current_features)
    /\ Has(Val(last.current_features).lineWMA)
    /\ LET w == Val(Val(last.current_features).lineWMA)
       IN /\ w > 0
          /\ IF strategy.position = 1 THEN last.current_price < w
             ELSE last.current_price > w

MaxTrades == 7
\* results of a closed trade: a loss or a profit
TradeResults == {-1, 1}
\* hours the wall clock is followed for
MaxClock == 72
\* hours between two looks at the wall clock
ClockStep == (max_cooldown_treatment_duration * timeframe_hours) \div 2
\* the price positions are opened at
StrategyEntryPrice == 100

InitStrategy ==
    /\ signal_filter = SignalFilterInit
    /\ strategy \in { StrategyInit(mode, threshold) :
                        mode \in ModeChoices, threshold \in ThresholdChoices }
    /\ bt = BacktesterInit
    /\ pc = "idle"
    /\ now = 0
    /\ last = LastInit
    /\ ghost = GhostInit

\* the ghost history after a call of should_skip_trade took s to s1
GhostAfterSkip(g, s, s1) ==
    [g EXCEPT !.skip_calls = Min(g.skip_calls + 1, g.act_m + 1),
              !.skip_called = TRUE,
              !.recovered = g.recovered
                              \/ (s.cooldown_treatment_active
                                  /\ ~s1.cooldown_treatment_active)]

\* the ghost history after update_cooldown_treatment_status took s to s1
GhostAfterUpdate(g, s, s1) ==
    IF ~s.cooldown_treatment_active /\ s1.cooldown_treatment_active
    THEN [g EXCEPT !.act_m = s1.max_skip_trades, !.skip_calls = 0,
                   !.closed_since = FALSE]
    ELSE [g EXCEPT !.closed_since = TRUE,
                   !.recovered = g.recovered
                                   \/ (s.cooldown_treatment_active
                                       /\ ~s1.cooldown_treatment_active)]

\* what is remembered of the strategy a call started in
PreOf(s) ==
    [ cooldown_treatment_active |-> s.cooldown_treatment_active,
      skipped_trades_count |-> s.skipped_trades_count,
      max_skip_trades |-> s.max_skip_trades ]

\* update_cooldown_treatment_status(trade_result) with trade_result['pnl']
UpdateCooldownTreatmentStatus ==
    /\ Len(strategy.trade_history) < MaxTrades
    /\ \E pnl \in TradeResults :
        LET s1 == update_cooldown_treatment_status(strategy, pnl, now)
        IN /\ strategy' = s1
           /\ ghost' = GhostAfterUpdate(ghost, strategy, s1)
           /\ last' = [op |-> "update_cooldown_treatment_status", pnl |-> pnl]
    /\ UNCHANGED <<signal_filter, bt, pc, now>>

ShouldSkipTrade ==
    /\ LET r == should_skip_trade(strategy)
       IN /\ strategy' = r.s
          /\ ghost' = GhostAfterSkip(ghost, strategy, r.s)
          /\ last' = [ op |-> "should_skip_trade", ret |-> r.ret,
                       pre |-> PreOf(strategy) ]
    /\ UNCHANGED <<signal_filter, bt, pc, now>>

ShouldOpenPosition ==
    /\ \E signal \in {-1, 0, 1} :
        LET r == should_open_position(strategy, signal)
        IN /\ strategy' = r.s
           /\ ghost' = IF signal # 0 /\ strategy.position # signal
                       THEN GhostAfterSkip(ghost, strategy, r.s)
                       ELSE ghost
           /\ last' = [ op |-> "should_open_position", signal |-> signal,
                        ret |-> r.ret ]
    /\ UNCHANGED <<signal_filter, bt, pc, now>>

\* update_position_info as open_position (a direction, with a time) and
\* close_position (flat) call it
UpdatePositionInfo ==
    /\ \E position \in {-1, 0, 1} :
        /\ strategy' = update_position_info(
                          strategy, position,
                          IF position = 0 THEN 0 ELSE StrategyEntryPrice,
                          StrategyEntryPrice, TRUE)
        /\ last' = [op |-> "update_position_info"]
    /\ UNCHANGED <<signal_filter, bt, pc, now, ghost>>

ResetRiskManagement ==
    /\ strategy' = reset_risk_management(strategy)
    /\ ghost' = GhostInit
    /\ last' = [op |-> "reset_risk_management"]
    /\ UNCHANGED <<signal_filter, bt, pc, now>>

\* datetime.now() moves on; only the realtime cooldown reads it
Tick ==
    /\ strategy.cooldown_treatment_mode = "realtime"
    /\ now + ClockStep <= MaxClock
    /\ now' = now + ClockStep
    /\ last' = [op |-> "tick"]
    /\ UNCHANGED <<signal_filter, strategy, bt, pc, ghost>>

NextStrategy ==
    \/ UpdateCooldownTreatmentStatus
    \/ ShouldSkipTrade
    \/ ShouldOpenPosition
    \/ UpdatePositionInfo
    \/ ResetRiskManagement
    \/ Tick

SpecStrategy == InitStrategy /\ [][NextStrategy]_vars

\* C1: in every reachable strategy state and for every signal in {-1, 0, 1},
\* should_open_position answers false when the signal is 0 or equals the
\* position the strategy holds.
C1_NoSameDirectionOpen ==
    last.op = "should_open_position" =>
        ((last.signal = 0 \/ strategy.position = last.signal) => ~last.ret)

\* C1 witness: a strategy that holds a long position after some trades, is
\* not in cooldown, and is asked to open long.
C1_Witness ==
    /\ last.op = "should_open_position"
    /\ last.signal = 1
    /\ strategy.position = 1
    /\ Len(strategy.trade_history) >= 2
    /\ ~strategy.cooldown_treatment_active
    /\ ~last.ret

BacktestMode == strategy.cooldown_treatment_mode = "backtest"

\* C4: in backtest mode, after cooldown activated with max_skip_trades = m > 0
\* and with no further trade result, cooldown is active through the first
\* m - 1 calls of should_skip_trade and inactive from the m-th call on, when
\* position_size_reduction is 1.0 and the skip counters are cleared.
C4_RecoveryAtMthCall ==
    (BacktestMode /\ ghost.act_m > 0 /\ ~ghost.closed_since) =>
        IF ghost.skip_calls < ghost.act_m
        THEN /\ strategy.cooldown_treatment_active
             /\ strategy.max_skip_trades = ghost.act_m
             /\ strategy.skipped_trades_count = ghost.skip_calls
        ELSE /\ ~strategy.cooldown_treatment_active
             /\ strategy.position_size_reduction = 100
             /\ strategy.skipped_trades_count = 0
             /\ strategy.max_skip_trades = 0

\* C4 witness: the m-th call (m = 5, a level 2 cooldown) has just ended the
\* cooldown.
C4_Witness ==
    /\ BacktestMode
    /\ ghost.act_m = level_2_skip_trades
    /\ ~ghost.closed_since
    /\ ghost.skip_calls = ghost.act_m
    /\ last.op = "should_skip_trade"
    /\ last.pre.cooldown_treatment_active
    /\ ~strategy.cooldown_treatment_active

\* Since the reset state the strategy was given N >= consecutive_loss_threshold
\* losing trades one by one and should_skip_trade was not called.
LossesFromReset ==
    /\ Len(strategy.trade_history) >= strategy.cooldown_threshold
    /\ \A i \in 1..Len(strategy.trade_history) : strategy.trade_history[i] < 0
    /\ ~ghost.skip_called

\* C5 as stated: after N >= consecutive_loss_threshold consecutive losses from
\* the reset state cooldown is active and its level is 3 if N >= 7, 2 if
\* 5 <= N <= 6 and 1 otherwise, in both modes.
C5_LevelFollowsLossCount ==
    LossesFromReset =>
        /\ strategy.cooldown_treatment_active
        /\ strategy.cooldown_treatment_level
              = activation_level(Len(strategy.trade_history))

\* C5: after N >= consecutive_loss_threshold consecutive losses from the reset
\* state, with no should_skip_trade call and no cooldown recovery in between,
\* cooldown is active in both modes and its level is the one chosen when it
\* activated, at the loss that reached the threshold: 3 if the threshold is
\* >= 7, 2 if it is 5 or 6, 1 otherwise; later losses do not raise it.
C5_LevelChosenAtActivation ==
    (LossesFromReset /\ ~ghost.recovered) =>
        /\ strategy.cooldown_treatment_active
        /\ strategy.cooldown_treatment_level
              = activation_level(strategy.cooldown_threshold)

\* C5 witness: five consecutive losses with threshold 2 leave a level 1
\* cooldown.
C5_Witness ==
    /\ LossesFromReset
    /\ ~ghost.recovered
    /\ strategy.cooldown_threshold = 2
    /\ Len(strategy.trade_history) = level_2_consecutive_losses
    /\ last.op = "update_cooldown_treatment_status"
    /\ strategy.cooldown_treatment_active
    /\ strategy.cooldown_treatment_level = 1

\* C6 as stated: in backtest mode every call of should_skip_trade that starts
\* while cooldown is active answers true and increments skipped_trades_count
\* by one.
C6_EveryActiveCallVetoes ==
    (BacktestMode /\ last.op = "should_skip_trade"
       /\ last.pre.cooldown_treatment_active) =>
        /\ last.ret
        /\ strategy.skipped_trades_count = last.pre.skipped_trades_count + 1

(***************************************************************************)
(* SharpeOptimizedStrategy: take profit and risk management (strategy.py)  *)
(***************************************************************************)

\* take_profit.time_based_take_profit is False in OPTIMIZED_STRATEGY_CONFIG
time_based_take_profit == FALSE
time_based_periods == 120
\* take_profit_config.get('callback_ratio', 0.03), in per cent
callback_ratio == 3
\* row_data.get('RSI', 50)
default_take_profit_rsi == 50
rsi_overbought_take_profit == 75
rsi_oversold_take_profit == 25

\* (current_price - entry_price) / entry_price for a long, the opposite for a
\* short, as the numerator over entry_price
profit_amount(s, current_price) ==
    IF s.position = 1 THEN current_price - s.entry_price
    ELSE s.entry_price - current_price

TakeResult(ret, reason, s, raised) ==
    [ret |-> ret, reason |-> reason, s |-> s, raised |-> raised]

\* should_take_profit, strategy 0: LineWMA reversal together with a reversed
\* signal_score (a missing signal_score reads as 0)
take_profit_linewma(s, current_price, current_features) ==
    /\ Has(current_features)
    /\ Has(Val(current_features).lineWMA)
    /\ Val(Val(current_features).lineWMA) > 0
    /\ LET f == Val(current_features)
           line_wma == Val(f.lineWMA)
           current_signal_score == IF Has(f.signal_score) THEN Val(f.signal_score) ELSE 0
       IN IF s.position = 1
          THEN current_price < line_wma /\ current_signal_score < 0
          ELSE current_price > line_wma /\ current_signal_score > 0

\* should_take_profit, strategy 2: callback from the high (low) point; the
\* division by a high (low) point of 0 raises.
take_profit_callback(s, current_price) ==
    IF s.position = 1
    THEN IF ~Has(s.high_point) \/ current_price > Val(s.high_point)
         THEN TakeResult(FALSE, "none",
                         [s EXCEPT !.high_point = Some(current_price)], FALSE)
         ELSE IF Val(s.high_point) = 0 THEN TakeResult(FALSE, "none", s, TRUE)
         ELSE IF (Val(s.high_point) - current_price) * 100
                    >= callback_ratio * Val(s.high_point)
         THEN TakeResult(TRUE, "long_callback_take_profit", s, FALSE)
         ELSE TakeResult(FALSE, "none", s, FALSE)
    ELSE IF ~Has(s.low_point) THEN
             TakeResult(FALSE, "none",
                        [s EXCEPT !.low_point = Some(current_price)], FALSE)
         ELSE IF current_price < Val(s.low_point)
         THEN TakeResult(FALSE, "none",
                         [s EXCEPT !.low_point = Some(current_price)], FALSE)
         ELSE IF Val(s.low_point) = 0 THEN TakeResult(FALSE, "none", s, TRUE)
         ELSE IF (current_price - Val(s.low_point)) * 100
                    >= callback_ratio * Val(s.low_point)
         THEN TakeResult(TRUE, "short_callback_take_profit", s, FALSE)
         ELSE TakeResult(FALSE, "none", s, FALSE)

\* should_take_profit, strategy 3: RSI read under the key 'RSI'; a cell that
\* holds None raises in the comparison.
take_profit_rsi(s, current_features) ==
    IF ~Has(current_features) THEN TakeResult(FALSE, "none", s, FALSE)
    ELSE IF HoldsNone(Val(current_features).RSI) THEN TakeResult(FALSE, "none", s, TRUE)
    ELSE LET f == Val(current_features)
             rsi == IF Has(f.RSI) THEN Val(f.RSI) ELSE default_take_profit_rsi
         IN IF s.position = 1 /\ rsi >= rsi_overbought_take_profit
            THEN TakeResult(TRUE, "long_rsi_take_profit", s, FALSE)
            ELSE IF s.position # 1 /\ rsi <= rsi_oversold_take_profit
            THEN TakeResult(TRUE, "short_rsi_take_profit", s, FALSE)
            ELSE TakeResult(FALSE, "none", s, FALSE)

\* should_take_profit, strategy 3 after strategy 2 answered cb
take_profit_after_callback(cb, current_features) ==
    IF cb.ret \/ cb.raised THEN cb
    ELSE take_profit_rsi(cb.s, current_features)

\* should_take_profit(current_price, current_features)
should_take_profit(s, current_price, current_features) ==
    IF s.position = 0 THEN TakeResult(FALSE, "none", s, FALSE)
    ELSE IF take_profit_linewma(s, current_price, current_features)
    THEN TakeResult(TRUE,
                    IF s.position = 1 THEN "long_linewma_take_profit"
                    ELSE "short_linewma_take_profit", s, FALSE)
    ELSE IF /\ time_based_take_profit
            /\ s.holding_periods >= time_based_periods
            /\ profit_amount(s, current_price) > 0
    THEN TakeResult(TRUE, "time_take_profit", s, FALSE)
    ELSE IF profit_amount(s, current_price) <= 0
    THEN TakeResult(FALSE, "none", s, FALSE)
    ELSE take_profit_after_callback(take_profit_callback(s, current_price),
                                    current_features)

\* _update_high_low_points
update_high_low_points(s, current_price) ==
    IF s.position = 1
    THEN IF ~Has(s.high_point) \/ current_price > Val(s.high_point)
         THEN [s EXCEPT !.high_point = Some(current_price)] ELSE s
    ELSE IF s.position = -1
    THEN IF ~Has(s.low_point) \/ current_price < Val(s.low_point)
         THEN [s EXCEPT !.low_point = Some(current_price)] ELSE s
    ELSE s

RiskResult(action, reason, s, raised) ==
    [action |-> action, reason |-> reason, s |-> s, raised |-> raised]

\* check_risk_management in profit, after should_take_profit answered tp
risk_after_take_profit(tp, current_price) ==
    IF tp.raised THEN RiskResult("hold", "raised", tp.s, TRUE)
    ELSE IF tp.ret THEN RiskResult("take_profit", tp.reason, tp.s, FALSE)
    ELSE RiskResult("hold", "keep_position",
                    update_high_low_points(tp.s, current_price), FALSE)

\* check_risk_management not in profit, after should_stop_loss answered sl
risk_after_stop_loss(s, sl, current_price) ==
    IF sl.ret THEN RiskResult("stop_loss", sl.reason, s, FALSE)
    ELSE RiskResult("hold", "keep_position",
                    update_high_low_points(s, current_price), FALSE)

\* A changed check_risk_management: the take-profit rules are asked whatever
\* the profit is.
check_risk_management_ungated(s, current_price, current_features) ==
    IF s.position = 0 THEN RiskResult("hold", "no_position", s, FALSE)
    ELSE risk_after_take_profit(
             should_take_profit(s, current_price, current_features), current_price)

\* check_risk_management(current_price, current_features)
check_risk_management(s, current_price, current_features) ==
    IF s.position = 0 THEN RiskResult("hold", "no_position", s, FALSE)
    ELSE IF profit_amount(s, current_price) > 0
    THEN risk_after_take_profit(
             should_take_profit(s, current_price, current_features), current_price)
    ELSE risk_after_stop_loss(
             s, should_stop_loss(s, current_price, current_features), current_price)

(***************************************************************************)
(* SharpeOptimizedStrategy: signal generation (strategy.py)                *)
(***************************************************************************)

\* signal_direction thresholds on the base score, in hundredths
long_threshold == 60
short_threshold == 25
\* final_score_weights defaults, in per cent
signal_weight == 60
trend_weight == 40
risk_weight == 0
drawdown_weight == 0
\* _calculate_risk_score and _calculate_drawdown_score answer 0.5 on fewer
\* than 30 bars, in hundredths
short_data_score == 50
\* position_config, sizes in per mille
full_position_threshold_min == 0
full_position_threshold_max == 0
full_position_size == 1000
avg_adjusted_position == 200
max_adjusted_position == 900

\* _calculate_direction on the base score
calculate_direction(base_score) ==
    IF base_score > long_threshold THEN 1
    ELSE IF base_score < short_threshold THEN -1
    ELSE 0

\* the position size the score alone asks for, in per mille; signal_score is
\* in 1/10000
score_position_size(signal_score) ==
    IF signal_score >= full_position_threshold_max * 100
       \/ signal_score <= full_position_threshold_min * 100
    THEN full_position_size
    ELSE avg_adjusted_position

\* apply_cooldown_treatment_to_position_size (no caller in the repository):
\* sizes in per mille
apply_cooldown_treatment_to_position_size(s, position_size) ==
    IF ~s.cooldown_treatment_active THEN position_size
    ELSE (position_size * s.position_size_reduction) \div 100

\* _calculate_position_size: the 'size' of the result, in per mille
calculate_position_size(s, signal, signal_score) ==
    IF signal = 0 THEN 0
    ELSE Max(0, Min(max_adjusted_position,
                    (score_position_size(signal_score) * s.risk_multiplier) \div 100))

\* _calculate_signal after the filter chain answered `filtered`; scores in
\* hundredths, signal_score in 1/10000
signal_record(s, base_score, trend_score, filtered) ==
    LET signal_score == base_score * signal_weight + trend_score * trend_weight
                        + short_data_score * risk_weight
                        + short_data_score * drawdown_weight
        signal == IF filtered.signal > 0 THEN 1
                  ELSE IF filtered.signal < 0 THEN -1 ELSE 0
    IN [ raised |-> FALSE,
         signal |-> signal,
         signal_score |-> signal_score,
         position_size |-> calculate_position_size(s, signal, signal_score),
         reason |-> IF signal = 1 THEN "long_signal"
                    ELSE IF signal = -1 THEN "short_signal"
                    ELSE filtered.reason,
         s |-> update_holding_periods(s) ]

\* _calculate_signal on the last row of the data; the row's signal_score
\* column is the base score.  A missing score raises (None in a comparison).
calculate_signal(s, f, row) ==
    IF ~Has(row.signal_score) \/ ~Has(row.trend_score)
    THEN [raised |-> TRUE, s |-> s]
    ELSE signal_record(s, Val(row.signal_score), Val(row.trend_score),
                       filter_signal(f, calculate_direction(Val(row.signal_score)),
                                     row, row.trend_score, row.signal_score))

\* A changed generate_signals: a failed computation answers a long signal.
signal_info_of_long(r) ==
    [ info |-> [signal |-> 1, signal_score |-> 0, has_size |-> FALSE,
                position_size |-> 0,
                reason |-> IF r.raised THEN "signal_exception" ELSE r.reason],
      s |-> r.s ]

\* generate_signals after _calculate_signal answered r
signal_info_of(r) ==
    IF r.raised
    THEN [ info |-> [signal |-> 0, signal_score |-> 0, has_size |-> FALSE,
                     position_size |-> 0, reason |-> "signal_exception"],
           s |-> r.s ]
    ELSE [ info |-> [signal |-> r.signal, signal_score |-> r.signal_score,
                     has_size |-> TRUE, position_size |-> r.position_size,
                     reason |-> r.reason],
           s |-> r.s ]

\* generate_signals: the signal record and the strategy afterwards; an
\* exception of _calculate_signal becomes a record with signal 0 and no
\* position_size.
generate_signals(s, f, row) == signal_info_of(calculate_signal(s, f, row))

(***************************************************************************)
(* Backtester: positions and the bar loop (backtester.py)                  *)
(* Money is in cents and rounded down to a cent.                           *)
(***************************************************************************)

\* calculate_position_value(current_price)
calculate_position_value(b, current_price) ==
    IF b.position = 0 THEN 0
    ELSE IF b.position = 1
    THEN (b.position_value * current_price) \div b.entry_price
    ELSE (b.position_value * b.entry_price) \div current_price

\* A changed open_position: the check for a held position is missing.
open_position_unguarded(b, s, signal, price, t, signal_info) ==
    LET asked == IF Has(signal_info) /\ Val(signal_info).has_size
                 THEN (b.cash * Val(signal_info).position_size) \div 1000
                 ELSE b.cash
        position_value == IF asked > b.cash THEN b.cash ELSE asked
        fee == (position_value * trading_fee) \div 1000
        cash == b.cash - (position_value + fee)
    IN [ bt |-> [b EXCEPT !.cash = cash, !.position = signal,
                          !.entry_price = price,
                          !.position_value = position_value,
                          !.total_trades = b.total_trades + 1],
         s |-> update_position_info(s, signal, price, price, TRUE) ]

\* open_position(signal, price, current_time, timeframe, signal_info): the
\* backtester and the strategy afterwards.  signal_info is <<>> for None.
open_position(b, s, signal, price, t, signal_info) ==
    IF b.position # 0 THEN [bt |-> b, s |-> s]
    ELSE LET asked == IF Has(signal_info) /\ Val(signal_info).has_size
                      THEN (b.cash * Val(signal_info).position_size) \div 1000
                      ELSE b.cash
             position_value == IF asked > b.cash THEN b.cash ELSE asked
             fee == (position_value * trading_fee) \div 1000
             cash == b.cash - (position_value + fee)
             trade_record ==
                 [ date |-> t,
                   action |-> IF signal = 1 THEN "open_long" ELSE "open_short",
                   price |-> price,
                   position_value |-> position_value,
                   cash |-> cash,
                   pnl |-> 0,
                   reason |-> IF Has(signal_info) THEN Val(signal_info).reason
                              ELSE "signal_open",
                   trade_type |-> "open" ]
         IN [ bt |-> [b EXCEPT !.cash = cash,
                               !.position = signal,
                               !.entry_price = price,
                               !.position_value = position_value,
                               !.high_point = IF signal = 1 THEN Some(price)
                                              ELSE Some(0),
                               !.low_point = IF signal = 1 THEN None
                                             ELSE Some(price),
                               !.trade_log = Append(b.trade_log, trade_record),
                               !.total_trades = b.total_trades + 1],
              s |-> update_position_info(s, signal, price, price, TRUE) ]

\* A changed close_position: the strategy is not told of the close.
close_position_unmirrored(b, s, price, reason, t) ==
    IF b.position = 0 THEN [bt |-> b, s |-> s, raised |-> FALSE]
    ELSE LET pnl == calculate_position_value(b, price) - b.position_value
             cash == Max(0, b.cash + b.position_value + pnl)
             trade_record ==
                 [ date |-> t,
                   action |-> IF b.position = 1 THEN "close_long" ELSE "close_short",
                   price |-> price,
                   position_value |-> b.position_value,
                   cash |-> cash,
                   pnl |-> pnl,
                   reason |-> reason,
                   trade_type |-> "close" ]
         IN [ bt |-> [b EXCEPT !.cash = cash,
                               !.trade_log = Append(b.trade_log, trade_record),
                               !.position = 0,
                               !.entry_price = 0,
                               !.position_value = 0],
              s |-> update_cooldown_treatment_status(s, pnl, 0),
              raised |-> FALSE ]

\* close_position(price, reason, current_time): the backtester and the
\* strategy afterwards.  The log line divides pnl by position_value: with a
\* position_value of 0 the call raises after the cash, the counters and the
\* cooldown were updated and before the record is appended.
close_position(b, s, price, reason, t) ==
    IF b.position = 0 THEN [bt |-> b, s |-> s, raised |-> FALSE]
    ELSE LET pnl == IF b.position = 1
                    THEN (b.position_value * price) \div b.entry_price
                            - b.position_value
                    ELSE (b.position_value * b.entry_price) \div price
                            - b.position_value
             closing_amount == b.position_value + pnl
             fee == IF closing_amount > 0
                    THEN (closing_amount * trading_fee) \div 1000 ELSE 0
             cash == Max(0, b.cash + closing_amount - fee)
             b1 == [b EXCEPT !.cash = cash,
                             !.profitable_trades =
                                 IF pnl > 0 THEN b.profitable_trades + 1
                                 ELSE b.profitable_trades,
                             !.loss_trades =
                                 IF pnl > 0 THEN b.loss_trades
                                 ELSE b.loss_trades + 1]
             \* the wall clock does not move during a backtest
             s1 == update_cooldown_treatment_status(s, pnl, 0)
             trade_record ==
                 [ date |-> t,
                   action |-> IF b.position = 1 THEN "close_long" ELSE "close_short",
                   price |-> price,
                   position_value |-> b.position_value,
                   cash |-> cash,
                   pnl |-> pnl,
                   reason |-> reason,
                   trade_type |-> "close" ]
         IN IF b.position_value = 0
            THEN [bt |-> b1, s |-> s1, raised |-> TRUE]
            ELSE [ bt |-> [b1 EXCEPT !.trade_log = Append(b.trade_log, trade_record),
                                     !.position = 0,
                                     !.entry_price = 0,
                                     !.position_value = 0,
                                     !.high_point = Some(0),
                                     !.low_point = None],
                   s |-> update_position_info(s1, 0, 0, price, TRUE),
                   raised |-> FALSE ]

\* run_backtest, the reset before the loop (high_point and low_point are
\* not reset)
run_backtest_reset(b) ==
    [b EXCEPT !.cash = initial_cash,
              !.position = 0,
              !.entry_price = 0,
              !.position_value = 0,
              !.trade_log = <<>>,
              !.total_assets = <<>>,
              !.asset_timestamps = <<>>,
              !.total_trades = 0,
              !.profitable_trades = 0,
              !.loss_trades = 0]

\* A changed risk step: a failed check closes the position as a fallback.
bar_after_risk_fallback(b, risk, row, t) ==
    [ bt |-> close_position(b, risk.s, row.close, "fallback", t).bt,
      s |-> close_position(b, risk.s, row.close, "fallback", t).s,
      closed |-> TRUE, raised |-> risk.raised ]

\* run_backtest, one bar: what follows check_risk_management answering risk;
\* `raised` tells that the check raised and the handler caught it.
bar_after_risk(b, risk, row, t) ==
    IF risk.raised THEN [bt |-> b, s |-> risk.s, closed |-> FALSE, raised |-> TRUE]
    ELSE IF risk.action \in {"stop_loss", "take_profit"}
    THEN [ bt |-> close_position(b, risk.s, row.close, risk.reason, t).bt,
           s |-> close_position(b, risk.s, row.close, risk.reason, t).s,
           closed |-> ~close_position(b, risk.s, row.close, risk.reason, t).raised,
           raised |-> FALSE ]
    ELSE [bt |-> b, s |-> risk.s, closed |-> FALSE, raised |-> FALSE]

\* run_backtest, the risk management part of one bar
bar_risk_management(b, s, row, t) ==
    IF b.position = 0 THEN [bt |-> b, s |-> s, closed |-> FALSE, raised |-> FALSE]
    ELSE bar_after_risk(
             b,
             check_risk_management(
                 update_position_info(s, b.position, b.entry_price, row.close, FALSE),
                 row.close, <<row>>),
             row, t)

\* run_backtest, the end of one bar: the equity curve gets a point
bar_record_assets(b, row, t) ==
    [b EXCEPT !.total_assets =
                  Append(b.total_assets,
                         b.cash + IF b.position # 0
                                  THEN calculate_position_value(b, row.close)
                                  ELSE 0),
              !.asset_timestamps = Append(b.asset_timestamps, t)]

BarResult(b, s, g, gen, skipped) ==
    [bt |-> b, s |-> s, info |-> g.info, gen |-> gen, skipped |-> skipped]

\* A changed opening step: the bar loop counts the trade a second time.
bar_after_open_recount(o, g, gen, row, t) ==
    BarResult(bar_record_assets([o.bt EXCEPT !.total_trades = @ + 1], row, t),
              update_position_info(o.s, o.bt.position, o.bt.entry_price,
                                   row.close, FALSE),
              g, gen, FALSE)

\* run_backtest, one bar: open_position answered o
bar_after_open(o, g, gen, row, t) ==
    BarResult(bar_record_assets(o.bt, row, t),
              update_position_info(o.s, o.bt.position, o.bt.entry_price,
                                   row.close, FALSE),
              g, gen, FALSE)

\* run_backtest, one bar: should_open_position answered so
bar_after_should_open(rm, g, so, gen, row, t) ==
    IF ~so.ret THEN BarResult(rm.bt, so.s, g, gen, TRUE)
    ELSE bar_after_open(
             open_position(rm.bt, so.s, g.info.signal, row.close, t, Some(g.info)),
             g, gen, row, t)

\* A changed signal step: a bar that closed a position may open another.
bar_after_skip_reopen(rm, g, skip, gen, row, t) ==
    IF skip.ret THEN BarResult(rm.bt, skip.s, g, gen, TRUE)
    ELSE IF g.info.signal # 0 /\ rm.bt.position = 0
    THEN bar_after_should_open(rm, g, should_open_position(skip.s, g.info.signal),
                               gen, row, t)
    ELSE BarResult(bar_record_assets(rm.bt, row, t), skip.s, g, gen, FALSE)

\* run_backtest, one bar: should_skip_trade answered skip
bar_after_skip(rm, g, skip, gen, row, t) ==
    IF skip.ret THEN BarResult(rm.bt, skip.s, g, gen, TRUE)
    ELSE IF g.info.signal # 0 /\ rm.bt.position = 0 /\ ~rm.closed
    THEN bar_after_should_open(rm, g, should_open_position(skip.s, g.info.signal),
                               gen, row, t)
    ELSE BarResult(bar_record_assets(rm.bt, row, t), skip.s, g, gen, FALSE)

\* run_backtest, one bar: generate_signals answered g while the strategy was
\* in the cooldown gen
bar_after_signals(rm, g, row, t) ==
    bar_after_skip(
        rm, g, should_skip_trade(g.s),
        [ cooldown_treatment_active |-> rm.s.cooldown_treatment_active,
          cooldown_treatment_level |-> rm.s.cooldown_treatment_level,
          position_size_reduction |-> rm.s.position_size_reduction,
          risk_multiplier |-> rm.s.risk_multiplier ],
        row, t)

\* run_backtest, one bar: the risk management part answered rm
bar_after_risk_management(rm, f, row, t) ==
    bar_after_signals(rm, generate_signals(rm.s, f, row), row, t)

\* run_backtest, one iteration of the loop over the bars.  `skipped` tells
\* that the iteration ended with `continue`; `gen` is the cooldown the
\* strategy was in when generate_signals was called.
run_backtest_bar(b, s, f, row, t) ==
    bar_after_risk_management(bar_risk_management(b, s, row, t), f, row, t)

\* A changed end of run_backtest: an open position is left open.
run_backtest_end_open(b, s, last_close, t) ==
    [bt |-> b, s |-> s, raised |-> FALSE]

\* run_backtest after the loop: a position still held is closed at the close
\* of the last bar
run_backtest_end(b, s, last_close, t) ==
    IF b.position # 0
    THEN close_position(b, s, last_close, "backtest_end", t)
    ELSE [bt |-> b, s |-> s, raised |-> FALSE]

(***************************************************************************)
(* Specification SpecBacktest: a constructed backtester either runs        *)
(* run_backtest over a bar sequence chosen bar by bar, or has its          *)
(* open_position called directly.                                          *)
(***************************************************************************)

\* bars of one backtest
MaxBars == 4

\* A feature row at close price `close`: a bullish row has
\* price above the averages above lineWMA and high scores, a bearish row the
\* opposite, a neutral row a base score between the direction thresholds.
\* An overbought row is a bullish row with an rsi of 80 instead of 50; a
\* nosignal row is a neutral row that carries no signal_score; a badrsi row
\* is a bullish row whose 'RSI' cell holds None.
\* n is the number of bars up to and including this one.
BarRow(close, mood, n) ==
    LET side == IF mood \in {"bullish", "overbought", "badrsi"} THEN 1
                ELSE IF mood = "bearish" THEN -1 ELSE 0
        base == FilterRow(Some(close - side * 2), close,
                          <<close - side, close - side>>,
                          <<0, 0>>,
                          Some(IF mood = "overbought" THEN 80 ELSE 50),
                          <<n, 0>>)
    IN [base EXCEPT !.signal_score = IF mood = "nosignal" THEN None
                                     ELSE Some(IF side = 1 THEN 70
                                               ELSE IF side = -1 THEN -50 ELSE 40),
                    !.trend_score = Some(side * 50),
                    !.RSI = IF mood = "badrsi" THEN NoneCell ELSE None]

BarChoices ==
    { <<80, "bullish">>, <<80, "bearish">>,
      <<100, "bullish">>, <<100, "bearish">>, <<100, "neutral">>,
      <<120, "bullish">>, <<120, "bearish">>, <<120, "overbought">>,
      <<100, "nosignal">>, <<120, "badrsi">> }

InitBacktest ==
    /\ signal_filter = SignalFilterInit
    /\ strategy \in { StrategyInit(mode, 2) : mode \in ModeChoices }
    /\ bt = BacktesterInit
    /\ pc = "idle"
    /\ now = 0
    /\ last = LastInit
    /\ ghost = GhostInit

\* open_position called directly, without a signal record
OpenPosition ==
    /\ pc \in {"idle", "direct"}
    /\ \E signal \in {-1, 1}, price \in {100, 120} :
        LET o == open_position(bt, strategy, signal, price, now, None)
        IN /\ bt' = o.bt
           /\ strategy' = o.s
           /\ last' = [op |-> "open_position", pre |-> bt]
    /\ pc' = "direct"
    /\ UNCHANGED <<signal_filter, now, ghost>>

\* check_risk_management called directly, on a flat strategy or after
\* open_position
CheckRiskManagement ==
    /\ pc \in {"idle", "direct"}
    /\ \E c \in BarChoices :
        LET row == BarRow(c[1], c[2], 1)
            r == check_risk_management(strategy, row.close, <<row>>)
        IN /\ strategy' = r.s
           /\ last' = [ op |-> "check_risk_management", pre |-> strategy,
                        current_price |-> row.close, action |-> r.action,
                        raised |-> r.raised ]
    /\ pc' = "direct"
    /\ UNCHANGED <<signal_filter, bt, now, ghost>>

\* run_backtest up to the loop
RunBacktestStart ==
    /\ pc = "idle"
    /\ bt' = run_backtest_reset(bt)
    /\ strategy' = reset_risk_management(strategy)
    /\ pc' = "loop"
    /\ now' = 0
    /\ last' = [op |-> "run_backtest_start"]
    /\ UNCHANGED <<signal_filter, ghost>>

\* The best close since the entry of the position held after a bar: the
\* highest for a long, the lowest for a short, None when flat.  before is
\* the best close up to the bar before.
BestClose(position_before, position_after, before, close) ==
    IF position_after = 0 THEN None
    ELSE IF position_before = 0 \/ ~Has(before) THEN Some(close)
    ELSE IF position_after = 1 THEN Some(Max(Val(before), close))
    ELSE Some(Min(Val(before), close))

\* the best close since entry recorded by the latest bar
BestBefore == IF last.op = "bar" THEN last.best ELSE None

\* the reason of the signal record of the bar before, "none" on the first bar
ReasonBefore == IF last.op = "bar" THEN last.info.reason ELSE "none"

\* one iteration of the loop, on the next bar of a table of at most `bound`
\* bars drawn from `choices`
RunBar(choices, bound) ==
    /\ pc = "loop"
    /\ now < bound
    /\ \E c \in choices :
        LET row == BarRow(c[1], c[2], now + 1)
            r == run_backtest_bar(bt, strategy, signal_filter, row, now + 1)
            rm == bar_risk_management(bt, strategy, row, now + 1)
        IN /\ bt' = r.bt
           /\ strategy' = r.s
           /\ last' = [ op |-> "bar", row |-> row, pre |-> bt, info |-> r.info,
                        gen |-> r.gen, skipped |-> r.skipped,
                        pre_best |-> BestBefore,
                        pre_reason |-> ReasonBefore,
                        pre_holding_periods |-> strategy.holding_periods,
                        risk |-> [raised |-> rm.raised, bt |-> rm.bt],
                        best |-> BestClose(bt.position, r.bt.position,
                                           BestBefore, row.close) ]
    /\ now' = now + 1
    /\ UNCHANGED <<signal_filter, pc, ghost>>

\* one iteration of the loop, on the next bar of the data
RunBacktestBar == RunBar(BarChoices, MaxBars)

\* the close of the last bar of the data; an empty table has none, and the
\* code reads it only when a position is held
LastClose == IF last.op = "bar" THEN last.row.close ELSE 0

\* the data ends: run_backtest leaves the loop and returns.  On an empty
\* table the loop body never ran.
RunBacktestEnd ==
    /\ pc = "loop"
    /\ last.op \in {"bar", "run_backtest_start"}
    /\ LET r == run_backtest_end(bt, strategy, LastClose, now)
       IN /\ bt' = r.bt
          /\ strategy' = r.s
          /\ pc' = IF r.raised THEN "failed" ELSE "done"
          /\ last' = [ op |-> "run_backtest_end", pre |-> bt,
                       last_close |-> LastClose ]
    /\ UNCHANGED <<signal_filter, now, ghost>>

NextBacktest ==
    \/ OpenPosition
    \/ CheckRiskManagement
    \/ RunBacktestStart
    \/ RunBacktestBar
    \/ RunBacktestEnd

SpecBacktest == InitBacktest /\ [][NextBacktest]_vars

\* C2: during run_backtest the position of the Backtester only moves between
\* flat and long or flat and short, one bar never turns long into short or
\* back, and nothing is opened on top of a held position; open_position
\* called while a position is held leaves cash, entry price, position value,
\* trade log and trade counters unchanged.
C2_SinglePosition ==
    /\ last.op = "bar" =>
          /\ (last.pre.position # bt.position)
                => (last.pre.position = 0 \/ bt.position = 0)
          /\ (last.pre.position # 0 /\ bt.position # 0)
                => /\ bt.entry_price = last.pre.entry_price
                   /\ bt.position_value = last.pre.position_value
                   /\ bt.cash = last.pre.cash
                   /\ bt.total_trades = last.pre.total_trades
                   /\ bt.trade_log = last.pre.trade_log
    /\ (last.op = "open_position" /\ last.pre.position # 0) =>
          /\ bt.position = last.pre.position
          /\ bt.cash = last.pre.cash
          /\ bt.entry_price = last.pre.entry_price
          /\ bt.position_value = last.pre.position_value
          /\ bt.trade_log = last.pre.trade_log
          /\ bt.total_trades = last.pre.total_trades
          /\ bt.profitable_trades = last.pre.profitable_trades
          /\ bt.loss_trades = last.pre.loss_trades

\* C2 witness: open_position is called on a backtester that holds a long
\* position opened at 100.
C2_Witness ==
    /\ last.op = "open_position"
    /\ last.pre.position = 1
    /\ last.pre.entry_price = 100
    /\ bt.position = 1
    /\ Len(bt.trade_log) = 1

\* C3: when run_backtest returns after at least one bar, the Backtester and
\* the strategy are flat; if a position was open after the last bar, the last
\* trade-log record is a close record at the close of the last bar with the
\* end-of-backtest reason.
C3_ForcedLiquidation ==
    pc = "done" =>
        /\ bt.position = 0
        /\ strategy.position = 0
        /\ last.pre.position # 0 =>
              /\ Len(bt.trade_log) = Len(last.pre.trade_log) + 1
              /\ bt.trade_log[Len(bt.trade_log)].trade_type = "close"
              /\ bt.trade_log[Len(bt.trade_log)].price = last.last_close
              /\ bt.trade_log[Len(bt.trade_log)].reason = "backtest_end"

\* C3 witness: the run ends while a short position, the second trade of the
\* run, is open.
C3_Witness ==
    /\ pc = "done"
    /\ last.pre.position = -1
    /\ Len(last.pre.trade_log) = 3
    /\ bt.position = 0

\* the position size the cooldown treatment is stated to give, in per mille
reduced_position_size(signal_score, risk_multiplier, level) ==
    Max(0, Min(max_adjusted_position,
               (score_position_size(signal_score) * risk_multiplier
                  * level_position_reduction(level)) \div 10000))

\* C8 as stated: while cooldown is active at level L, the position size in
\* the record generate_signals returns for a non-zero direction is the
\* score-derived size times the risk multiplier times
\* position_size_reduction(L), clamped to [0, max_adjusted_position].
C8_CooldownShrinksPositionSize ==
    (last.op = "bar" /\ last.info.signal # 0
       /\ last.gen.cooldown_treatment_active) =>
        last.info.position_size
           = reduced_position_size(last.info.signal_score,
                                   last.gen.risk_multiplier,
                                   last.gen.cooldown_treatment_level)

\* the latest bar found a position held since an earlier bar
HeldOverBar == last.op = "bar" /\ last.pre.position # 0 /\ Has(last.pre_best)

\* the close of the latest bar leaves the position held before it in profit
BarInProfit ==
    IF last.pre.position = 1 THEN last.row.close > last.pre.entry_price
    ELSE last.row.close < last.pre.entry_price

\* the LineWMA reversal rule of should_take_profit fires on the latest bar
BarLineWMAReversal ==
    take_profit_linewma([position |-> last.pre.position], last.row.close,
                        <<last.row>>)

\* the close of the latest bar is off the best close since entry by at least
\* the callback ratio
BarCallback ==
    LET w == Val(last.pre_best)
    IN IF last.pre.position = 1
       THEN (w - last.row.close) * 100 >= callback_ratio * w
       ELSE (last.row.close - w) * 100 >= callback_ratio * w

\* the latest bar closed the position, with the given reason in the trade log
BarClosedWith(reasons) ==
    /\ bt.position = 0
    /\ Len(bt.trade_log) = Len(last.pre.trade_log) + 1
    /\ bt.trade_log[Len(bt.trade_log)].trade_type = "close"
    /\ bt.trade_log[Len(bt.trade_log)].reason \in reasons

\* C11 as stated: in run_backtest a position held over several bars that is
\* in profit and whose close has come back from the best close since entry
\* by at least the callback ratio is closed on that bar with the callback
\* take-profit reason, when no higher-priority take-profit rule fires.
C11_CallbackFromBestClose ==
    (HeldOverBar /\ BarInProfit /\ BarCallback /\ ~BarLineWMAReversal) =>
        BarClosedWith({"long_callback_take_profit", "short_callback_take_profit"})

\* the latest bar closed the position held before it
BarClosed ==
    /\ bt.position = 0
    /\ Len(bt.trade_log) = Len(last.pre.trade_log) + 1
    /\ bt.trade_log[Len(bt.trade_log)].trade_type = "close"

\* C12 as stated: in run_backtest, on any bar where a position is held,
\* lineWMA is valid, the close has crossed lineWMA against the position and
\* the bar's signal score has the sign opposite to the position, the position
\* is closed on that bar, whether its unrealized PnL is positive, zero or
\* negative.
C12_ReversalClosesOnAnyPnL ==
    (last.op = "bar" /\ last.pre.position # 0 /\ BarLineWMAReversal) => BarClosed

\* C13 as stated: in run_backtest a profitable long is closed on a bar whose
\* rsi is >= rsi_overbought_take_profit and a profitable short on a bar whose
\* rsi is <= rsi_oversold_take_profit, when no higher-priority take-profit
\* rule (LineWMA reversal, callback) fires on that bar.
C13_RsiTakeProfit ==
    ( /\ HeldOverBar /\ BarInProfit
      /\ Has(last.row.rsi)
      /\ IF last.pre.position = 1
         THEN Val(last.row.rsi) >= rsi_overbought_take_profit
         ELSE Val(last.row.rsi) <= rsi_oversold_take_profit
      /\ ~BarLineWMAReversal /\ ~BarCallback ) =>
        BarClosedWith({"long_rsi_take_profit", "short_rsi_take_profit"})

\* C14 as stated: run_backtest appends exactly one equity-curve entry for
\* every bar it processes, also on bars on which should_skip_trade answers
\* true or should_open_position declines: after n bars total_assets and
\* asset_timestamps both have length n.
C14_EquityEntryPerBar ==
    pc \in {"loop", "done"} =>
        /\ Len(bt.total_assets) = now
        /\ Len(bt.asset_timestamps) = now

(***************************************************************************)
(* FeatureEngineer: indicator weights and the weighted scores.             *)
(* Weights are kept in units of 1/100000 before normalisation and in       *)
(* units of 1/10000 after it; adx and rsi are whole numbers, the volume    *)
(* ratio is in hundredths and the volatility in thousandths.               *)
(***************************************************************************)
Indicators ==
    {"adx", "ema", "macd", "rsi", "price", "atr", "volume", "bb", "obv", "sentiment"}

RECURSIVE SumValues(_, _)
SumValues(d, keys) ==
    IF keys = {} THEN 0
    ELSE LET k == CHOOSE x \in keys : TRUE
         IN d[k] + SumValues(d, keys \ {k})

\* sum(weights.values())
TotalWeight(d) == SumValues(d, DOMAIN d)

\* weights.get(k, default)
WeightGet(d, k, default) == IF k \in DOMAIN d THEN d[k] ELSE default

\* The weight table in hundredths, as the code writes it.
fixed_weights ==
    [ adx |-> 14, ema |-> 14, macd |-> 14, rsi |-> 14, price |-> 9,
      atr |-> 10, volume |-> 10, bb |-> 5, obv |-> 5, sentiment |-> 5 ]

\* base_weights after its own normalisation, in units of 1/100000.
base_weights ==
    [ k \in DOMAIN fixed_weights |->
        (fixed_weights[k] * 100000) \div TotalWeight(fixed_weights) ]

\* A weight times a factor given in tenths.
Times(w, tenths) == (w * tenths) \div 10

\* {k: v / total}: each weight as a share of the total, in units of 1/10000;
\* the table is returned as it is when the total is not positive.
normalize_weights(d) ==
    IF TotalWeight(d) > 0
      THEN [ k \in DOMAIN d |-> (d[k] * 10000) \div TotalWeight(d) ]
      ELSE d

analyze_market_state(adx, rsi, volume_ratio, volatility) ==
    [ trend_strength |-> IF adx > 25 THEN "strong"
                         ELSE IF adx > 20 THEN "moderate" ELSE "weak",
      rsi_state |-> IF rsi > 70 THEN "overbought"
                    ELSE IF rsi < 30 THEN "oversold" ELSE "neutral",
      volume_state |-> IF volume_ratio > 150 THEN "high"
                       ELSE IF volume_ratio < 70 THEN "low" ELSE "normal",
      volatility_state |-> IF volatility > 30 THEN "high"
                           ELSE IF volatility < 10 THEN "low" ELSE "normal" ]

weights_by_trend(market_state) ==
    IF market_state.trend_strength = "strong"
      THEN [ adx |-> Times(base_weights.adx, 15), ema |-> Times(base_weights.ema, 13),
             macd |-> Times(base_weights.macd, 12), price |-> Times(base_weights.price, 8),
             rsi |-> Times(base_weights.rsi, 7), bb |-> Times(base_weights.bb, 6) ]
    ELSE IF market_state.trend_strength = "weak"
      THEN [ rsi |-> Times(base_weights.rsi, 14), bb |-> Times(base_weights.bb, 13),
             price |-> Times(base_weights.price, 12), adx |-> Times(base_weights.adx, 7),
             ema |-> Times(base_weights.ema, 8), macd |-> Times(base_weights.macd, 9) ]
    ELSE base_weights

weights_by_rsi(w, market_state) ==
    IF market_state.rsi_state \in {"overbought", "oversold"}
      THEN ("rsi" :> Times(WeightGet(w, "rsi", base_weights.rsi), 13)) @@
           ("bb" :> Times(WeightGet(w, "bb", base_weights.bb), 12)) @@ w
      ELSE w

weights_by_volume(w, market_state) ==
    IF market_state.volume_state = "high"
      THEN ("volume" :> Times(base_weights.volume, 14)) @@
           ("obv" :> Times(base_weights.obv, 13)) @@
           ("price" :> Times(WeightGet(w, "price", base_weights.price), 11)) @@ w
    ELSE IF market_state.volume_state = "low"
      THEN ("volume" :> Times(base_weights.volume, 6)) @@
           ("obv" :> Times(base_weights.obv, 7)) @@
           ("price" :> Times(WeightGet(w, "price", base_weights.price), 9)) @@ w
    ELSE ("volume" :> WeightGet(w, "volume", base_weights.volume)) @@
         ("obv" :> WeightGet(w, "obv", base_weights.obv)) @@ w

weights_by_volatility(w, market_state) ==
    IF market_state.volatility_state = "high"
      THEN ("atr" :> Times(base_weights.atr, 14)) @@
           ("bb" :> Times(WeightGet(w, "bb", base_weights.bb), 12)) @@
           ("price" :> Times(WeightGet(w, "price", base_weights.price), 8)) @@ w
    ELSE IF market_state.volatility_state = "low"
      THEN ("atr" :> Times(base_weights.atr, 6)) @@
           ("price" :> Times(WeightGet(w, "price", base_weights.price), 12)) @@
           ("rsi" :> Times(WeightGet(w, "rsi", base_weights.rsi), 11)) @@ w
    ELSE ("atr" :> WeightGet(w, "atr", base_weights.atr)) @@ w

\* Every key the steps above left out takes its base weight; a table with a
\* sentiment column takes the base sentiment weight whatever the steps did.
weights_filled(w, has_sentiment) ==
    [ k \in DOMAIN base_weights |->
        IF k = "sentiment" /\ has_sentiment THEN base_weights.sentiment
        ELSE WeightGet(w, k, base_weights[k]) ]

adjust_weights_by_market_state(market_state, has_sentiment) ==
    weights_filled(
        weights_by_volatility(
            weights_by_volume(
                weights_by_rsi(weights_by_trend(market_state), market_state),
                market_state),
            market_state),
        has_sentiment)

\* Dynamic mode without normalisation.
calculate_dynamic_weights_raw(df, mode) ==
    IF mode = "fixed" THEN fixed_weights
    ELSE LET current == df.rows[Len(df.rows)]
         IN adjust_weights_by_market_state(
                analyze_market_state(current.adx, current.rsi,
                                     current.volume_ratio, current.volatility),
                df.has_sentiment)

\* df.rows are the bars of the table with the indicator values each bar has
\* from the bars up to it; the market state is read at iloc[-1], the last
\* bar of the table.
calculate_dynamic_weights(df, mode) ==
    IF mode = "fixed" THEN normalize_weights(fixed_weights)
    ELSE LET current == df.rows[Len(df.rows)]
         IN normalize_weights(
                adjust_weights_by_market_state(
                    analyze_market_state(current.adx, current.rsi,
                                         current.volume_ratio, current.volatility),
                    df.has_sentiment))

RECURSIVE WeightedSum(_, _, _)
WeightedSum(weights, column, keys) ==
    IF keys = {} THEN 0
    ELSE LET k == CHOOSE x \in keys : TRUE
         IN WeightGet(weights, k, 0) * column[k]
            + WeightedSum(weights, column, keys \ {k})

\* The three weighted scores of one bar, in millionths. The sentiment signal
\* column does not exist yet when signal_score is computed, so its term is 0;
\* trend_score takes the table-wide sentiment score; sideways_score leaves
\* out the price and the sentiment terms.
score_row(weights, row, sentiment_score) ==
    [ signal_score |-> WeightedSum(weights, row.signal, Indicators \ {"sentiment"}),
      trend_score |-> WeightedSum(weights, row.trend_score, Indicators \ {"sentiment"})
                      + WeightGet(weights, "sentiment", 0) * sentiment_score,
      sideways_score |-> WeightedSum(weights, row.sideways_score,
                                     Indicators \ {"price", "sentiment"}) ]

\* generate_features: one weight table for the whole bar table, applied to
\* every bar of it.
generate_features(df, sentiment_score) ==
    [ i \in 1..Len(df.rows) |->
        score_row(calculate_dynamic_weights(df, "dynamic"), df.rows[i], sentiment_score) ]

(***************************************************************************)
(* The feature specification: one call of generate_features on a bar table *)
(* and on the same table cut after one of its bars, or one call of         *)
(* calculate_dynamic_weights.                                              *)
(***************************************************************************)
MaxFeatureBars == 3

IndicatorColumn(nonzero) ==
    [ k \in Indicators \ {"sentiment"} |-> IF k \in DOMAIN nonzero THEN nonzero[k] ELSE 0 ]

\* Indicator columns of a bar, in hundredths: a bar the trend indicators call
\* up, a bar the oscillators call down, and a bar where the two disagree.
IndicatorPatterns ==
    { [ signal |-> IndicatorColumn([adx |-> 100, ema |-> 100, macd |-> 100]),
        trend_score |-> IndicatorColumn([adx |-> 80, ema |-> 60, macd |-> 40]),
        sideways_score |-> IndicatorColumn([bb |-> 20]) ],
      [ signal |-> IndicatorColumn([rsi |-> -100, bb |-> -100]),
        trend_score |-> IndicatorColumn([rsi |-> -50, bb |-> -30]),
        sideways_score |-> IndicatorColumn([rsi |-> 70, bb |-> 60, atr |-> 50]) ],
      [ signal |-> IndicatorColumn([adx |-> 100, rsi |-> -100, price |-> 100]),
        trend_score |-> IndicatorColumn([adx |-> 50, rsi |-> -50, price |-> 30]),
        sideways_score |-> IndicatorColumn([adx |-> 30, rsi |-> 30, price |-> 90]) ] }

IndicatorRow(adx, rsi, volume_ratio, volatility, pattern) ==
    [ adx |-> adx, rsi |-> rsi, volume_ratio |-> volume_ratio,
      volatility |-> volatility, signal |-> pattern.signal,
      trend_score |-> pattern.trend_score,
      sideways_score |-> pattern.sideways_score ]

IndicatorRows ==
    { IndicatorRow(adx, 50, 100, 20, p) : adx \in {15, 30}, p \in IndicatorPatterns }

\* One bar with every reading on either side of each bucket boundary.
MarketStateRows ==
    { IndicatorRow(adx, rsi, vr, vol, CHOOSE p \in IndicatorPatterns : TRUE) :
        adx \in {20, 21, 25, 26}, rsi \in {29, 30, 70, 71},
        vr \in {69, 70, 150, 151}, vol \in {9, 10, 30, 31} }

RowTables(n) == UNION { [1..m -> IndicatorRows] : m \in 1..n }

\* The table cut after bar i.
TableUpTo(df, i) == [ rows |-> SubSeq(df.rows, 1, i), has_sentiment |-> df.has_sentiment ]

InitFeatures ==
    /\ signal_filter = SignalFilterInit
    /\ strategy = StrategyInit("backtest", 2)
    /\ bt = BacktesterInit
    /\ pc = "idle"
    /\ now = 0
    /\ last = LastInit
    /\ ghost = GhostInit

GenerateFeatures ==
    /\ last.op = "init"
    /\ \E rows \in RowTables(MaxFeatureBars), sentiment_score \in {0, 40} :
        \E i \in 1..Len(rows) :
            LET df == [rows |-> rows, has_sentiment |-> FALSE]
            IN /\ last' = [ op |-> "generate_features", df |-> df, i |-> i,
                            sentiment_score |-> sentiment_score,
                            ret |-> generate_features(df, sentiment_score),
                            ret_cut |-> generate_features(TableUpTo(df, i), sentiment_score) ]
               /\ UNCHANGED <<signal_filter, strategy, bt, pc, now, ghost>>

CalculateDynamicWeights ==
    /\ last.op = "init"
    /\ \E row \in MarketStateRows, has_sentiment \in BOOLEAN, mode \in {"dynamic", "fixed"} :
        LET df == [rows |-> <<row>>, has_sentiment |-> has_sentiment]
        IN /\ last' = [ op |-> "calculate_dynamic_weights", df |-> df, mode |-> mode,
                        market_state |-> analyze_market_state(row.adx, row.rsi,
                                                row.volume_ratio, row.volatility),
                        ret |-> calculate_dynamic_weights(df, mode) ]
           /\ UNCHANGED <<signal_filter, strategy, bt, pc, now, ghost>>

NextFeatures == GenerateFeatures \/ CalculateDynamicWeights

SpecFeatures == InitFeatures /\ [][NextFeatures]_vars

\* C15 as stated: the signal_score, trend_score and sideways_score that
\* generate_features assigns to bar i are the same for the whole table and for
\* the table cut after bar i, which agree on bars 0..i.
C15_NoLookAhead ==
    last.op = "generate_features" => last.ret[last.i] = last.ret_cut[last.i]

\* C16: in fixed mode and for every combination of the trend-strength, RSI,
\* volume and volatility buckets in dynamic mode, calculate_dynamic_weights
\* returns a weight for each of the ten indicators, no weight is negative, and
\* the weights sum to 1 (to within the rounding of ten shares in 1/10000).
C16_WeightsNormalised ==
    last.op = "calculate_dynamic_weights" =>
        /\ DOMAIN last.ret = Indicators
        /\ Cardinality(Indicators) = 10
        /\ \A k \in Indicators : last.ret[k] >= 0
        /\ TotalWeight(last.ret) \in (10000 - 10)..10000

C16_Witness ==
    /\ last.op = "calculate_dynamic_weights"
    /\ last.mode = "dynamic"
    /\ last.market_state = [ trend_strength |-> "strong", rsi_state |-> "overbought",
                             volume_state |-> "high", volatility_state |-> "low" ]
    /\ last.ret.adx > last.ret.ema
    /\ last.ret.rsi # last.ret.macd

\* The bar's signal computation failed: the row carries no signal_score.
BarSignalFailed == last.op = "bar" /\ ~Has(last.row.signal_score)

\* The entries the latest bar added to the trade log.
BarTrades == SubSeq(bt.trade_log, Len(last.pre.trade_log) + 1, Len(bt.trade_log))

\* C17: on a bar whose signal computation fails, generate_signals answers a
\* record with direction 0, run_backtest opens no position on that bar, a
\* held position changes only if the risk step closed it, and the loop goes
\* on to the later bars.
C17_SignalFailureIsNeutral ==
    BarSignalFailed =>
        /\ last.info.signal = 0
        /\ last.info.reason = "signal_exception"
        /\ \A k \in 1..Len(BarTrades) : BarTrades[k].trade_type = "close"
        /\ bt.position \in {last.pre.position, 0}
        /\ (bt.position # last.pre.position => Len(BarTrades) = 1)
        /\ pc = "loop"

\* A position is opened on the bar after a bar whose signal computation
\* failed while a position was not held.
C17_Witness ==
    /\ last.op = "bar"
    /\ last.pre_reason = "signal_exception"
    /\ last.pre.position = 0
    /\ bt.position # 0
    /\ Len(BarTrades) = 1
    /\ BarTrades[1].trade_type = "open"

\* check_risk_management raised on the latest bar.
BarRiskRaised == last.op = "bar" /\ last.pre.position # 0 /\ last.risk.raised

\* C18: on a bar where check_risk_management raises, the position side, the
\* entry price, the position value, the cash and the trade log are after the
\* risk step what they were before it, the signal step of the bar runs, and
\* the loop goes on to the later bars.
C18_RiskFailureChangesNothing ==
    BarRiskRaised =>
        /\ last.risk.bt.position = last.pre.position
        /\ last.risk.bt.entry_price = last.pre.entry_price
        /\ last.risk.bt.position_value = last.pre.position_value
        /\ last.risk.bt.cash = last.pre.cash
        /\ last.risk.bt.trade_log = last.pre.trade_log
        /\ last.info.reason \in {"long_signal", "short_signal"}
        /\ bt.position = last.pre.position
        /\ pc = "loop"

\* The check raised on a bar of a profitable long, and the bar's signal step
\* produced a long signal.
C18_Witness ==
    /\ BarRiskRaised
    /\ last.pre.position = 1
    /\ last.row.close > last.pre.entry_price
    /\ last.info.signal = 1
    /\ bt.cash = last.pre.cash

\* C19 as stated: run_backtest on an empty bar table ends in an error outcome
\* before any bar is simulated; it does not return a normal result record.
C19_EmptyTableIsAnError ==
    (last.op = "run_backtest_end" /\ now = 0) => pc = "failed"

(***************************************************************************)
(* Specification SpecRerun: run_backtest is run on a bar table chosen bar  *)
(* by bar, and then a second time, on the same Backtester and strategy,    *)
(* over the same bars.                                                     *)
(***************************************************************************)
MaxRerunBars == 4

RerunChoices ==
    { <<80, "bullish">>, <<80, "bearish">>, <<100, "bullish">>, <<120, "bearish">> }

\* bars: the bars of the first run; first: what the first run returned and
\* the strategy it left behind.
InitRerun ==
    /\ signal_filter = SignalFilterInit
    /\ strategy = StrategyInit("backtest", 2)
    /\ bt = BacktesterInit
    /\ pc = "idle"
    /\ now = 0
    /\ last = LastInit
    /\ ghost = [run |-> 0, bars |-> <<>>, first |-> None]

\* run_backtest up to the loop, for the first or for the second time
RerunStart ==
    /\ \/ pc = "idle"
       \/ pc = "done" /\ ghost.run = 1
    /\ bt' = run_backtest_reset(bt)
    /\ strategy' = reset_risk_management(strategy)
    /\ pc' = "loop"
    /\ now' = 0
    /\ last' = [op |-> "run_backtest_start"]
    /\ ghost' = [ghost EXCEPT !.run = ghost.run + 1]
    /\ UNCHANGED signal_filter

\* one iteration of the loop; the second run reads the bars of the first
RerunBar ==
    /\ pc = "loop"
    /\ now < MaxRerunBars
    /\ \E c \in RerunChoices :
        /\ ghost.run = 2 => now < Len(ghost.bars) /\ c = ghost.bars[now + 1]
        /\ LET row == BarRow(c[1], c[2], now + 1)
               r == run_backtest_bar(bt, strategy, signal_filter, row, now + 1)
           IN /\ bt' = r.bt
              /\ strategy' = r.s
              /\ last' = [op |-> "bar", row |-> row]
        /\ ghost' = IF ghost.run = 1
                    THEN [ghost EXCEPT !.bars = Append(ghost.bars, c)]
                    ELSE ghost
    /\ now' = now + 1
    /\ UNCHANGED <<signal_filter, pc>>

\* the data ends: run_backtest leaves the loop and returns its result
RerunEnd ==
    /\ pc = "loop"
    /\ ghost.run = 2 => now = Len(ghost.bars)
    /\ LET r == run_backtest_end(bt, strategy, LastClose, now)
       IN /\ bt' = r.bt
          /\ strategy' = r.s
          /\ pc' = IF r.raised THEN "failed" ELSE "done"
          /\ ghost' = IF ghost.run = 1
                      THEN [ghost EXCEPT !.first =
                                Some([ trade_log |-> r.bt.trade_log,
                                       total_assets |-> r.bt.total_assets,
                                       final_cash |-> r.bt.cash,
                                       strategy |-> r.s ])]
                      ELSE ghost
    /\ last' = [op |-> "run_backtest_end"]
    /\ UNCHANGED <<signal_filter, now>>

NextRerun == RerunStart \/ RerunBar \/ RerunEnd

SpecRerun == InitRerun /\ [][NextRerun]_vars

\* C20: a second run_backtest on the same Backtester and strategy over the
\* same bars, in backtest cooldown mode, returns the trade log, the equity
\* curve and the final cash of the first run, whatever the first run left.
C20_RerunGivesSameResult ==
    (ghost.run = 2 /\ pc = "done") =>
        /\ bt.trade_log = Val(ghost.first).trade_log
        /\ bt.total_assets = Val(ghost.first).total_assets
        /\ bt.cash = Val(ghost.first).final_cash

\* The second run is over; the first run had traded and left the strategy
\* with an active cooldown and a history of trades.
C20_Witness ==
    /\ ghost.run = 2
    /\ pc = "done"
    /\ Val(ghost.first).strategy.cooldown_treatment_active
    /\ Val(ghost.first).strategy.trade_history # <<>>
    /\ Len(bt.trade_log) >= 4
    /\ bt.cash # initial_cash

\* what check_risk_management must leave alone
PositionAndCooldown(s) ==
    [ position |-> s.position, entry_price |-> s.entry_price,
      cooldown_treatment_active |-> s.cooldown_treatment_active,
      cooldown_treatment_level |-> s.cooldown_treatment_level,
      position_size_reduction |-> s.position_size_reduction,
      skipped_trades_count |-> s.skipped_trades_count,
      max_skip_trades |-> s.max_skip_trades,
      consecutive_losses |-> s.consecutive_losses,
      trade_history |-> s.trade_history ]

BarTradeCount(type) ==
    Cardinality({k \in 1..Len(BarTrades) : BarTrades[k].trade_type = type})

\* C22: one bar of the run_backtest loop adds at most one close and at most
\* one open to the trade log, and adds no open when it added a close.
C22_OneCloseOneOpenPerBar ==
    last.op = "bar" =>
        /\ BarTradeCount("close") <= 1
        /\ BarTradeCount("open") <= 1
        /\ BarTradeCount("close") = 1 => BarTradeCount("open") = 0

\* a bar that closed a position and whose signal asked for a new one
C22_Witness ==
    /\ last.op = "bar"
    /\ BarTradeCount("close") = 1
    /\ last.info.signal # 0
    /\ ~last.skipped
    /\ bt.position = 0

\* the position was held before the latest bar and is still the same one
BarKeptPosition ==
    /\ last.op = "bar"
    /\ last.pre.position # 0
    /\ bt.position = last.pre.position
    /\ Len(BarTrades) = 0

\* C23 as stated: in run_backtest holding_periods is 0 on the bar a position
\* is opened, grows by exactly one on every later bar processed while the
\* position stays open, and is 0 whenever the strategy is flat.
C23_HoldingPeriodsCountBars ==
    last.op = "bar" =>
        /\ (last.pre.position = 0 /\ bt.position # 0) => strategy.holding_periods = 0
        /\ BarKeptPosition =>
               strategy.holding_periods = last.pre_holding_periods + 1
        /\ strategy.position = 0 => strategy.holding_periods = 0

(***************************************************************************)
(* Specification SpecHistory: trade results, losses, draws and profits,    *)
(* are fed to update_cooldown_treatment_status one after the other, more   *)
(* of them than the history keeps.                                         *)
(***************************************************************************)
\* trade results fed to one strategy
MaxFed == 22
\* times the result fed differs from the one fed before it
MaxTurns == 2

InitHistory ==
    /\ signal_filter = SignalFilterInit
    /\ strategy \in { StrategyInit(mode, 2) : mode \in ModeChoices }
    /\ bt = BacktesterInit
    /\ pc = "idle"
    /\ now = 0
    /\ last = LastInit
    /\ ghost = [fed |-> <<>>, turns |-> 0]

\* whether feeding pnl after the results in fed is a turn
IsTurn(fed, pnl) == fed # <<>> /\ fed[Len(fed)] # pnl

\* update_cooldown_treatment_status(trade_result) with trade_result['pnl']
FeedTradeResult ==
    /\ Len(ghost.fed) < MaxFed
    /\ \E pnl \in {-1, 0, 1} :
        /\ IsTurn(ghost.fed, pnl) => ghost.turns < MaxTurns
        /\ strategy' = update_cooldown_treatment_status(strategy, pnl, now)
        /\ ghost' = [ fed |-> Append(ghost.fed, pnl),
                      turns |-> IF IsTurn(ghost.fed, pnl) THEN ghost.turns + 1
                                ELSE ghost.turns ]
        /\ last' = [op |-> "update_cooldown_treatment_status", pnl |-> pnl]
    /\ UNCHANGED <<signal_filter, bt, pc, now>>

NextHistory == FeedTradeResult

SpecHistory == InitHistory /\ [][NextHistory]_vars

\* the length of the longest suffix of h whose results all have the sign
SuffixOfSign(h, sign) ==
    CHOOSE k \in 0..Len(h) :
        /\ \A i \in (Len(h) - k + 1)..Len(h) : h[i] * sign > 0
        /\ k < Len(h) => h[Len(h) - k] * sign <= 0

\* C24: after any sequence of update_cooldown_treatment_status calls the
\* history holds the most recent results, at most 20 of them, in the order
\* fed; consecutive_losses is the length of its longest suffix of losses and
\* consecutive_wins that of its longest suffix of profits, so one of the two
\* is 0 and neither exceeds 20.
C24_HistoryAndStreaks ==
    LET h == strategy.trade_history
        f == ghost.fed
    IN /\ Len(h) <= 20
       /\ h = SubSeq(f, Max(1, Len(f) - 19), Len(f))
       /\ strategy.consecutive_losses = SuffixOfSign(h, -1)
       /\ strategy.consecutive_wins = SuffixOfSign(h, 1)
       /\ strategy.consecutive_losses = 0 \/ strategy.consecutive_wins = 0
       /\ strategy.consecutive_losses <= 20
       /\ strategy.consecutive_wins <= 20

\* more results were fed than the history keeps; the oldest kept one is a
\* loss and the newest ones are a streak of profits
C24_Witness ==
    /\ Len(ghost.fed) > 20
    /\ Len(strategy.trade_history) = 20
    /\ strategy.trade_history[1] < 0
    /\ strategy.consecutive_wins >= 3
    /\ strategy.consecutive_losses = 0

\* realtime_mode cooldown_treatment_levels, in timeframe periods
level_1_duration == 24
level_2_duration == 48
level_3_duration == 72

level_duration(level) ==
    IF level = 3 THEN level_3_duration
    ELSE IF level = 2 THEN level_2_duration
    ELSE level_1_duration

\* C25 as stated: in realtime mode a cooldown of level L is over once the
\* time since its activation exceeds the duration of level L; when
\* update_cooldown_treatment_status has run its recovery check, a cooldown
\* still active is not older than the duration of its level.
C25_RealtimeRecoveryByLevel ==
    ( /\ last.op = "update_cooldown_treatment_status"
      /\ strategy.cooldown_treatment_mode = "realtime"
      /\ strategy.cooldown_treatment_active
      /\ Has(strategy.cooldown_treatment_start_time) ) =>
        now - Val(strategy.cooldown_treatment_start_time)
            <= level_duration(strategy.cooldown_treatment_level) * timeframe_hours

(***************************************************************************)
(* Specification SpecLongRun: run_backtest over longer tables of fewer bar *)
(* kinds, long enough for a cooldown to be activated, to skip its trades   *)
(* and to recover within one run.                                          *)
(***************************************************************************)
MaxLongBars == 7

LongRunChoices == { <<80, "bearish">>, <<100, "bullish">>, <<100, "neutral">> }

RunLongBar == RunBar(LongRunChoices, MaxLongBars)

NextLongRun == RunBacktestStart \/ RunLongBar \/ RunBacktestEnd

SpecLongRun == InitBacktest /\ [][NextLongRun]_vars

\* the latest bar opened a position
BarOpened == last.op = "bar" /\ BarTradeCount("open") = 1

\* C26: in backtest mode an open record is appended only while the cooldown
\* is inactive and position_size_reduction is 1.0; no position is opened
\* between the activation of a cooldown and its recovery.
C26_OpensOnlyOutsideCooldown ==
    (BarOpened /\ strategy.cooldown_treatment_mode = "backtest") =>
        /\ ~strategy.cooldown_treatment_active
        /\ strategy.cooldown_treatment_level = 0
        /\ strategy.position_size_reduction = 100

\* a position is opened on the bar on which the cooldown recovered
C26_Witness ==
    /\ BarOpened
    /\ strategy.cooldown_treatment_mode = "backtest"
    /\ last.gen.cooldown_treatment_active
    /\ ~strategy.cooldown_treatment_active

\* C27: between operations the cooldown is active exactly when its level is
\* 1, 2 or 3; an inactive cooldown has level 0, position_size_reduction 1.0
\* and both skip counters 0; an active cooldown in backtest mode has skipped
\* fewer trades than it has to.
C27_CooldownStateConsistent ==
    /\ strategy.cooldown_treatment_active <=> strategy.cooldown_treatment_level \in {1, 2, 3}
    /\ ~strategy.cooldown_treatment_active =>
           /\ strategy.cooldown_treatment_level = 0
           /\ strategy.position_size_reduction = 100
           /\ strategy.skipped_trades_count = 0
           /\ strategy.max_skip_trades = 0
    /\ (strategy.cooldown_treatment_active /\ strategy.cooldown_treatment_mode = "backtest") =>
           strategy.skipped_trades_count < strategy.max_skip_trades

\* an active backtest cooldown that has skipped some of its trades, after a
\* cooldown before it was reset
C27_Witness ==
    /\ strategy.cooldown_treatment_active
    /\ strategy.cooldown_treatment_mode = "backtest"
    /\ strategy.cooldown_treatment_level = 2
    /\ strategy.skipped_trades_count > 0
    /\ strategy.position_size_reduction < 100
    /\ ghost.recovered

\* C28: at the end of every bar of run_backtest and when it returns, the
\* strategy's position and entry_price are those of the Backtester.
C28_StrategyMirrorsBacktester ==
    (pc \in {"loop", "done"} /\ last.op \in {"run_backtest_start", "bar", "run_backtest_end"}) =>
        /\ strategy.position = bt.position
        /\ strategy.entry_price = bt.entry_price

\* a bar has ended with a short held by both, after an earlier close
C28_Witness ==
    /\ pc = "loop"
    /\ last.op = "bar"
    /\ bt.position = -1
    /\ strategy.position = -1
    /\ strategy.entry_price = last.row.close
    /\ Len(bt.trade_log) = 3

\* the number of records of the trade log with the given trade_type
LogCount(log, type) ==
    Cardinality({ i \in 1..Len(log) : log[i].trade_type = type })

\* the trade log alternates open, close, ... and starts with an open
LogAlternates(log) ==
    \A i \in 1..Len(log) :
        log[i].trade_type = IF i % 2 = 1 THEN "open" ELSE "close"

\* C29: during run_backtest the trade log alternates open, close, ...
\* starting with an open, it holds one more open than closes exactly while a
\* position is held, and at return opens equal closes, total_trades is the
\* number of open records and profitable_trades + loss_trades the number of
\* close records.
C29_TradeLogAlternates ==
    (pc \in {"loop", "done"} /\ last.op \in {"run_backtest_start", "bar", "run_backtest_end"}) =>
        /\ LogAlternates(bt.trade_log)
        /\ LogCount(bt.trade_log, "open") - LogCount(bt.trade_log, "close")
              = IF bt.position # 0 THEN 1 ELSE 0
        /\ pc = "done" =>
              /\ LogCount(bt.trade_log, "open") = LogCount(bt.trade_log, "close")
              /\ bt.total_trades = LogCount(bt.trade_log, "open")
              /\ bt.profitable_trades + bt.loss_trades
                    = LogCount(bt.trade_log, "close")

\* run_backtest has returned after two round trips, one won and one lost
C29_Witness ==
    /\ pc = "done"
    /\ last.op = "run_backtest_end"
    /\ Len(bt.trade_log) = 4
    /\ bt.profitable_trades = 1
    /\ bt.loss_trades = 1

\* C30: the Backtester's cash is never negative, after open_position (the
\* fee is charged on top of the position value) and after close_position.
C30_CashNeverNegative == bt.cash >= 0

=============================================================================
